---------------------------- MODULE Spec2Model ----------------------------
(***************************************************************************)
(* Model of the lottery-web program: the Comment and LotteryResult data    *)
(* models, the process-wide random generator used for the draw, and the    *)
(* LotteryEngine.conduct_lottery request with its scrapers and sessions.   *)
(*                                                                         *)
(* Text is modelled as a sequence of one-character strings, so that        *)
(* lower(), strip(), the substring test and the mention regex are computed *)
(* rather than assumed.                                                    *)
(***************************************************************************)
EXTENDS Integers, Sequences, FiniteSets, TLC

(***************************************************************************)
(* Bounds of the model.                                                    *)
(***************************************************************************)
\* number of states of the abstract random generator
RngStates == 4
\* seeds are 0..MaxSeed
MaxSeed == 1
\* winner_count of a LotteryResult is drawn from 1..MaxWinnerCount
MaxWinnerCount == 3
\* add_participant calls recorded per LotteryResult
MaxAdds == 2
\* length of a generated comment content
MaxContentLen == 3
\* length of a generated keyword
MaxKeywordLen == 2
\* mention_count_required is drawn from 0..MaxMentionRequired
MaxMentionRequired == 2

\* longest comment text of the mention filter's inputs
MaxMentionTextLen == 4

(***************************************************************************)
(* Text.                                                                   *)
(***************************************************************************)
Range(s) == {s[i] : i \in DOMAIN s}

Min(a, b) == IF a <= b THEN a ELSE b

UpperCase == <<"A","B","C","D","E","F","G","H","I","J","K","L","M",
               "N","O","P","Q","R","S","T","U","V","W","X","Y","Z">>

LowerCase == <<"a","b","c","d","e","f","g","h","i","j","k","l","m",
               "n","o","p","q","r","s","t","u","v","w","x","y","z">>

Digits == {"0","1","2","3","4","5","6","7","8","9"}

WhiteSpace == {" ", "\t", "\n"}

\* str.lower() on one character
LowerChar(ch) ==
    IF \E i \in DOMAIN UpperCase : UpperCase[i] = ch
    THEN LowerCase[CHOOSE i \in DOMAIN UpperCase : UpperCase[i] = ch]
    ELSE ch

\* str.lower()
lower(s) == [i \in DOMAIN s |-> LowerChar(s[i])]

\* Python's `needle in hay` on strings
StrIn(needle, hay) ==
    \E off \in 0..(Len(hay) - Len(needle)) :
        \A j \in 1..Len(needle) : hay[off + j] = needle[j]

\* str.strip(): the text between the first and the last non-blank character
strip(s) ==
    LET keep == {i \in DOMAIN s : s[i] \notin WhiteSpace}
    IN  IF keep = {} THEN <<>>
        ELSE SubSeq(s, CHOOSE i \in keep : \A k \in keep : i <= k,
                       CHOOSE i \in keep : \A k \in keep : i >= k)

\* all sequences over alphabet A of length at most n
RECURSIVE StringsUpTo(_, _)
StringsUpTo(A, n) ==
    IF n = 0 THEN {<<>>}
    ELSE LET shorter == StringsUpTo(A, n - 1)
         IN  shorter \cup {Append(s, ch) : s \in shorter, ch \in A}

(***************************************************************************)
(* Comment (models/comment.py).  A Comment object is a record              *)
(* [username, content, mentions]; objects live in the heap and the lists   *)
(* of a LotteryResult hold object ids, as the Python lists hold            *)
(* references.  list(set(mentions)) has no defined order: mentions is a    *)
(* set.                                                                    *)
(***************************************************************************)
\* characters of the class [a-zA-Z0-9_\.]
NameChars == Range(UpperCase) \cup Range(LowerCase) \cup Digits \cup {"_", "."}

\* end of the greedy run [a-zA-Z0-9_\.]+ that starts at position i
RECURSIVE RunEnd(_, _)
RunEnd(s, i) ==
    IF i < Len(s) /\ s[i + 1] \in NameChars THEN RunEnd(s, i + 1) ELSE i

\* re.findall(r'@([a-zA-Z0-9_\.]+)', s): left-to-right, non-overlapping
RECURSIVE findall_mentions(_, _)
findall_mentions(s, i) ==
    IF i > Len(s) THEN <<>>
    ELSE IF s[i] = "@" /\ i < Len(s) /\ s[i + 1] \in NameChars
         THEN LET e == RunEnd(s, i + 1)
              IN  <<SubSeq(s, i + 1, e)>> \o findall_mentions(s, e + 1)
         ELSE findall_mentions(s, i + 1)

\* the variant a plausible slip would give: the self-mention is kept
extract_mentions_keep_self(c) == Range(findall_mentions(c.content, 1))

\* Comment.extract_mentions
extract_mentions(c) ==
    LET unique_mentions == Range(findall_mentions(c.content, 1))
    IN  unique_mentions \ {c.username}

\* the variant a plausible slip would give: only the content is lowered
contains_keyword_raw_keyword(c, keyword) ==
    IF keyword = <<>> THEN TRUE ELSE StrIn(keyword, lower(c.content))

\* Comment.contains_keyword with case_sensitive = False
contains_keyword(c, keyword) ==
    IF keyword = <<>> THEN TRUE
    ELSE StrIn(lower(keyword), lower(c.content))

\* Comment.mention_count: the value returned
mention_count(c) ==
    IF c.mentions = {} THEN Cardinality(extract_mentions(c))
    ELSE Cardinality(c.mentions)

\* Comment.mention_count: the object afterwards
after_mention_count(c) ==
    IF c.mentions = {} THEN [c EXCEPT !.mentions = extract_mentions(c)] ELSE c

\* Comment(...) as the scrapers build it: extract_mentions() right away
NewComment(username, content) ==
    LET c == [username |-> username, content |-> content, mentions |-> {}]
    IN  [c EXCEPT !.mentions = extract_mentions(c)]

\* Comment.to_dict: 'mentions' is read before mention_count() refreshes it
comment_to_dict(c) ==
    [username |-> c.username, content |-> c.content,
     mentions |-> c.mentions, mention_count |-> mention_count(c)]

\* Comment.from_dict
comment_from_dict(d) ==
    [username |-> d.username, content |-> d.content, mentions |-> d.mentions]

(***************************************************************************)
(* The process-wide random generator (the random module's hidden instance).*)
(* The Mersenne Twister is abstracted to a generator with RngStates states:*)
(* what matters to the program is that seed() sets the whole state, that   *)
(* every draw is a function of the state, and that every draw advances it. *)
(***************************************************************************)
\* the generator's step
rng_next(state) == (state + 1) % RngStates

\* random.seed(s): the state is a function of the seed alone
seed_state(s) == (7 * s + 1) % RngStates

\* Random._randbelow(n): a value in 0..n-1 and the state afterwards
randbelow(state, n) ==
    [value |-> (rng_next(state) * n) \div RngStates, state |-> rng_next(state)]

\* list with position j (0-based) overwritten by the element at position last
PoolMove(pool, j, last) == [pool EXCEPT ![j + 1] = pool[last + 1]]

\* random.sample(population, k), pool branch (len(population) <= 21):
\*   for i in range(k): j = randbelow(n-i); result[i] = pool[j];
\*                      pool[j] = pool[n-i-1]
RECURSIVE sample_loop(_, _, _, _, _)
sample_loop(state, pool, i, k, out) ==
    IF i = k THEN [out |-> out, state |-> state]
    ELSE LET n == Len(pool)
             r == randbelow(state, n - i)
         IN  sample_loop(r.state, PoolMove(pool, r.value, n - i - 1),
                         i + 1, k, Append(out, pool[r.value + 1]))

\* random.choices(population, k=k): every pick is made from the whole list
RECURSIVE choices(_, _, _)
choices(state, population, k) ==
    IF k = 0 THEN [out |-> <<>>, state |-> state]
    ELSE LET r == randbelow(state, Len(population))
             rest == choices(r.state, population, k - 1)
         IN  [out |-> <<population[r.value + 1]>> \o rest.out,
              state |-> rest.state]

sample(state, population, k) == sample_loop(state, population, 0, k, <<>>)

(***************************************************************************)
(* LotteryResult (models/lottery_result.py).                               *)
(***************************************************************************)
\* urlparse(''): nothing in any component
EmptyUrl == [netloc |-> <<>>, path |-> <<>>]

\* a seed argument: <<>> is None, <<s>> is the integer s
NoSeed == <<>>

Seeds == {NoSeed} \cup {<<s>> : s \in 0..MaxSeed}

\* LotteryResult(...) as the dataclass builds it
NewLotteryResult(id, url, mode, winner_count, keyword, mention_count_required) ==
    [id |-> id, post_url |-> url, platform |-> "", mode |-> mode,
     winner_count |-> winner_count, keyword |-> keyword,
     mention_count_required |-> mention_count_required,
     winners |-> <<>>, all_participants |-> <<>>,
     eligible_participants |-> <<>>,
     total_comments |-> 0, total_participants |-> 0, eligible_count |-> 0]

\* the variant a plausible slip would give: no duplicate check
add_participant_no_dedup(r, h, id) ==
    [r EXCEPT !.all_participants = Append(@, id)]

\* LotteryResult.add_participant
add_participant(r, h, id) ==
    IF ~ \E i \in DOMAIN r.all_participants :
             h[r.all_participants[i]].username = h[id].username
    THEN [r EXCEPT !.all_participants = Append(@, id)]
    ELSE r

\* add_participant for every comment of a list, in order
RECURSIVE add_participants(_, _, _)
add_participants(r, h, ids) ==
    IF ids = <<>> THEN r
    ELSE add_participants(add_participant(r, h, Head(ids)), h, Tail(ids))

\* LotteryResult._is_eligible: the value returned
is_eligible(r, c) ==
    IF r.mode = "1" THEN contains_keyword(c, r.keyword)
    ELSE IF r.mode = "2" THEN TRUE
    ELSE IF r.mode = "3"
         THEN mention_count([c EXCEPT !.mentions = extract_mentions(c)])
                  >= r.mention_count_required
    ELSE FALSE

\* LotteryResult._is_eligible: the comment objects afterwards (mode 3 calls
\* comment.extract_mentions() on every participant it looks at)
heap_after_filter(r, h) ==
    IF r.mode = "3"
    THEN [id \in DOMAIN h |->
            IF id \in Range(r.all_participants)
            THEN [h[id] EXCEPT !.mentions = extract_mentions(h[id])]
            ELSE h[id]]
    ELSE h

\* LotteryResult.filter_eligible_participants
filter_eligible_participants(r, h) ==
    LET eligible == SelectSeq(r.all_participants,
                              LAMBDA id : is_eligible(r, h[id]))
    IN  [r EXCEPT !.eligible_participants = eligible,
                  !.eligible_count = Len(eligible)]

\* line 108: min(self.winner_count, len(self.eligible_participants))
available_winners(r) == Min(r.winner_count, Len(r.eligible_participants))

\* the variant a plausible slip would give: the seed is ignored
draw_state_unseeded(seed, state) == state

\* lines 101-102: the generator state the draw starts from
draw_state(seed, state) ==
    IF seed # NoSeed THEN seed_state(seed[1]) ELSE state

\* the variant with a generator of its own for a seeded draw,
\* random.Random(seed): the process-wide generator stays as it was
conduct_lottery_own_generator(r, h, seed, state) ==
    LET s0 == draw_state(seed, state)
        r1 == filter_eligible_participants(r, h)
        k  == available_winners(r1)
        d  == IF k > 0 THEN sample(s0, r1.eligible_participants, k)
              ELSE [out |-> <<>>, state |-> s0]
    IN  [result |-> [r1 EXCEPT
                       !.winners = d.out,
                       !.total_comments = Len(r1.all_participants),
                       !.total_participants =
                           Cardinality({h[id].username :
                                           id \in Range(r1.all_participants)})],
         state |-> IF seed # NoSeed THEN state ELSE d.state]

\* LotteryResult.conduct_lottery: the result and the generator afterwards
conduct_lottery(r, h, seed, state) ==
    LET s0 == draw_state(seed, state)
        r1 == filter_eligible_participants(r, h)
        k  == available_winners(r1)
        d  == IF k > 0 THEN sample(s0, r1.eligible_participants, k)
              ELSE [out |-> <<>>, state |-> s0]
    IN  [result |-> [r1 EXCEPT
                       !.winners = d.out,
                       !.total_comments = Len(r1.all_participants),
                       !.total_participants =
                           Cardinality({h[id].username :
                                           id \in Range(r1.all_participants)})],
         state |-> d.state]

\* LotteryResult.to_dict
to_dict(r, h) ==
    [id |-> r.id, post_url |-> r.post_url, platform |-> r.platform,
     mode |-> r.mode, winner_count |-> r.winner_count, keyword |-> r.keyword,
     mention_count_required |-> r.mention_count_required,
     winners |-> [i \in DOMAIN r.winners |-> comment_to_dict(h[r.winners[i]])],
     total_comments |-> r.total_comments,
     total_participants |-> r.total_participants,
     eligible_count |-> r.eligible_count,
     success |-> Len(r.winners) > 0]

\* to_dict calls winner.to_dict(), whose mention_count() may fill mentions
heap_after_to_dict(r, h) ==
    [id \in DOMAIN h |->
        IF id \in Range(r.winners) THEN after_mention_count(h[id]) ELSE h[id]]

\* LotteryResult.from_dict: the winners are new Comment objects (numbered
\* after the n existing ones); the participant lists are not restored
from_dict(d, n) ==
    [id |-> d.id, post_url |-> d.post_url, platform |-> d.platform,
     mode |-> d.mode, winner_count |-> d.winner_count, keyword |-> d.keyword,
     mention_count_required |-> d.mention_count_required,
     winners |-> [i \in DOMAIN d.winners |-> n + i],
     all_participants |-> <<>>, eligible_participants |-> <<>>,
     total_comments |-> d.total_comments,
     total_participants |-> d.total_participants,
     eligible_count |-> d.eligible_count]

\* the Comment objects from_dict makes, in the order of d['winners']
from_dict_comments(d) ==
    [i \in DOMAIN d.winners |-> comment_from_dict(d.winners[i])]

(***************************************************************************)
(* URLs and the scraper factory (services/scrapers).  A URL is the record  *)
(* urlparse gives: [netloc, path].                                         *)
(***************************************************************************)
Text_threads_com == <<"t","h","r","e","a","d","s",".","c","o","m">>

Text_threads_net == <<"t","h","r","e","a","d","s",".","n","e","t">>

Text_instagram_com == <<"i","n","s","t","a","g","r","a","m",".","c","o","m">>

Text_www == <<"w","w","w",".">>

\* ThreadsScraper.THREADS_DOMAINS
THREADS_DOMAINS == {Text_threads_com, Text_www \o Text_threads_com,
                    Text_threads_net, Text_www \o Text_threads_net}

\* InstagramScraper.INSTAGRAM_DOMAINS
INSTAGRAM_DOMAINS == {Text_instagram_com, Text_www \o Text_instagram_com}

\* ScraperFactory.detect_platform: "" stands for the ScrapingError it raises
detect_platform(url) ==
    LET domain == lower(url.netloc)
    IN  IF StrIn(Text_threads_com, domain) \/ StrIn(Text_threads_net, domain)
        THEN "threads"
        ELSE IF StrIn(Text_instagram_com, domain) THEN "instagram"
        ELSE ""

\* ThreadsScraper.validate_url and SeleniumThreadsScraper.validate_url
threads_validate_url(url) ==
    /\ lower(url.netloc) \in THREADS_DOMAINS
    /\ StrIn(<<"/","p","o","s","t","/">>, url.path)

\* InstagramScraper.validate_url
instagram_validate_url(url) ==
    /\ lower(url.netloc) \in INSTAGRAM_DOMAINS
    /\ \/ StrIn(<<"/","p","/">>, url.path)
       \/ StrIn(<<"/","r","e","e","l","/">>, url.path)

\* the slip of taking every url of a detected platform as supported
is_supported_url_by_platform(url) == detect_platform(url) # ""

\* ScraperFactory.is_supported_url: the value returned
is_supported_url(url) ==
    LET platform == detect_platform(url)
    IN  IF platform = "threads" THEN threads_validate_url(url)
        ELSE IF platform = "instagram" THEN instagram_validate_url(url)
        ELSE FALSE

\* ScraperFactory.is_supported_url builds scraper_class() to ask validate_url:
\* whether a temporary scraper (and its requests.Session) comes to exist
is_supported_url_creates_scraper(url) == detect_platform(url) # ""

\* the slip of asking for the browser scraper in the fallback too
scraper_transport_selenium_always(url, use_selenium) ==
    IF detect_platform(url) = "threads" THEN "driver" ELSE "http"

\* ScraperFactory.create_scraper: the transport of the scraper it builds
scraper_transport(url, use_selenium) ==
    IF use_selenium /\ detect_platform(url) = "threads" THEN "driver"
    ELSE "http"

(***************************************************************************)
(* LotteryEngine (services/lottery/lottery_engine.py).                     *)
(***************************************************************************)
\* the variant a plausible slip would give: winner_count is not checked
validate_parameters_no_count(url, mode, winner_count, keyword, mention_count_required) ==
    IF url = EmptyUrl THEN "URL is required"
    ELSE IF ~ is_supported_url(url) THEN "Unsupported URL format"
    ELSE IF mode \notin {"1", "2", "3"} THEN "Mode must be 1, 2, or 3"
    ELSE IF mode = "1" /\ strip(keyword) = <<>>
         THEN "Keyword is required for mode 1"
    ELSE IF mode = "3" /\ mention_count_required < 1
         THEN "Mention count must be at least 1 for mode 3"
    ELSE ""

\* LotteryEngine._validate_parameters: the message of the ValueError it
\* raises, "" when it returns normally
validate_parameters(url, mode, winner_count, keyword, mention_count_required) ==
    IF url = EmptyUrl THEN "URL is required"
    ELSE IF ~ is_supported_url(url) THEN "Unsupported URL format"
    ELSE IF mode \notin {"1", "2", "3"} THEN "Mode must be 1, 2, or 3"
    ELSE IF winner_count < 1 THEN "Winner count must be at least 1"
    ELSE IF mode = "1" /\ strip(keyword) = <<>>
         THEN "Keyword is required for mode 1"
    ELSE IF mode = "3" /\ mention_count_required < 1
         THEN "Mention count must be at least 1 for mode 3"
    ELSE ""

\* _validate_parameters reaches is_supported_url only for a non-empty URL
validation_creates_scraper(url) ==
    url # EmptyUrl /\ is_supported_url_creates_scraper(url)

\* usernames _is_valid_comment treats as system accounts
SystemAccounts == {<<"i","n","s","t","a","g","r","a","m">>, <<"t","h","r","e","a","d","s">>,
                   <<"m","e","t","a">>, <<"f","a","c","e","b","o","o","k">>}

\* LotteryEngine._is_valid_comment
is_valid_comment(c) ==
    /\ c.username # <<>>
    /\ c.content # <<>>
    /\ Len(strip(c.content)) >= 2
    /\ lower(c.username) \notin SystemAccounts

\* _scrape_comments, lines 198-204: the valid comments, in order
valid_comments(h, ids) == SelectSeq(ids, LAMBDA id : is_valid_comment(h[id]))

\* the variant a plausible slip would give: the failure path resets the
\* platform with the other fields
failed_result_reset_all(r) ==
    [r EXCEPT !.winners = <<>>, !.total_comments = 0,
              !.total_participants = 0, !.eligible_count = 0,
              !.platform = ""]

\* conduct_lottery, lines 132-139: the result the except branch returns
failed_result(r) ==
    [r EXCEPT !.winners = <<>>, !.total_comments = 0,
              !.total_participants = 0, !.eligible_count = 0]

(***************************************************************************)
(* State.                                                                  *)
(***************************************************************************)
VARIABLES
    heap,          \* the Comment objects: id -> [username, content, mentions]
    result,        \* the LotteryResult at hand
    restored,      \* <<[r, comments]>>: what from_dict returned last
    rng,           \* state of the process-wide random generator
    lastOp,        \* the LotteryResult operation that acted last
    lastSeed,      \* its seed argument, when it was conduct_lottery
    addLog,        \* the add_participant calls made on result, in order
    pc,            \* position of the LotteryEngine.conduct_lottery call
    req,           \* its arguments
    sessions,      \* transport sessions created while serving the request
    scraped,       \* what the last scrape_comments returned
    scrapeOk,      \* FALSE when the last scraper raised
    cache,         \* LotteryEngine.results_cache: id -> LotteryResult
    outcome,       \* what the caller of conduct_lottery received
    cause,         \* the branch of conduct_lottery that ended the request
    logged,        \* the message of the last logger.error
    createCalls,   \* ScraperFactory.create_scraper calls of the request
    pageRequests,  \* pages requested by the request
    cacheAtStart,  \* results_cache when the request began
    nextId,        \* the next fresh LotteryResult id (uuid4)
    cookieFile,    \* the file at CookieStorage.file_path: <<>> or <<content>>
    now,           \* datetime.now(), in hours
    storeCall,     \* the CookieStorage call made last: [op, domain]
    returned,      \* what that call returned
    calls,         \* CookieStorage calls made so far
    max_age_hours, \* CookieStorage.max_age_hours, as update_expiry sets it
    auth_mode,     \* AuthConfig.auth_mode of the process
    is_authenticated, \* AuthManager.is_authenticated of the scraper at hand
    current_domain,   \* AuthManager.current_domain
    apc,           \* position of the authenticate_for_url call
    authRet,       \* <<value>> once authenticate_for_url has returned
    fileAtManual,  \* the cookie file when _manual_authenticate was entered
    fileAtCall,    \* the cookie file when authenticate_for_url was called
    trace,         \* what the scrape_comments call did so far, in order
    browserAt,     \* the page the browser shows
    scraperKind,   \* the scraper class at hand
    scrapeUrl,     \* the url argument of scrape_comments
    spc,           \* position of the scrape_comments call
    collected,     \* its local list `comments`
    ran,           \* the strategies it ran, with what each returned
    scrapeRet,     \* what scrape_comments returned or raised
    scrapes,       \* scrape_comments calls finished so far
    wpc,           \* position of the writing thread in save_cookies
    wcall,         \* its call: [op, target], target the file it is to leave
    rpc,           \* position of the reading thread
    rcall,         \* its call: [op, domain]
    rbuf,          \* what its f.read() returned
    rret,          \* what its call returned
    committed,     \* the file as the last finished writing call left it
    allowed,       \* the complete files the reading call may answer from
    writes,        \* writing calls finished so far
    reads,         \* reading calls finished so far
    tpc,           \* position of each request thread
    treq,          \* the request each thread serves
    tout,          \* what each thread's request ended with
    tfile,         \* the cookie file when each thread was given its request
    fetcher,       \* the scraper a _make_request call belongs to
    retry_attempts, \* its self.retry_attempts
    delay,         \* its self.delay, in seconds
    attempt,       \* the loop variable of _make_request
    fpc,           \* position of the _make_request call
    failures,      \* the exceptions its attempts ended with, in order
    slept,         \* the time.sleep calls between attempts, in order
    fret,          \* what the call returned or raised
    scrollpc,      \* position of the _smart_scroll_for_comments call
    scroll_attempts,      \* its local scroll_attempts
    no_new_content_count, \* its local no_new_content_count
    initial_count, \* its local initial_count
    growthLog,     \* per iteration done, whether new_count > initial_count
    typed,         \* the local `choice` of _prompt_and_authenticate
    urlpc,         \* how far the caller of the ScraperFactory has come
    urlArg,        \* the url it asks about
    supported,     \* what is_supported_url(url) returned
    built,         \* the scraper class create_scraper(url) built, "" if it raised
    accepted,      \* what that scraper's validate_url(url) returned
    seqArgs,       \* the arguments of a sequence of two draws
    runRng,        \* per process running the sequence: its generator's state
    runStep,       \* per process: how many of the two draws it has made
    runWinners     \* per process: the winners of its draws, in order

resultVars == <<heap, result, restored, rng, lastOp, lastSeed, addLog>>

engineVars == <<pc, req, sessions, scraped, scrapeOk, cache, outcome, cause,
                logged, createCalls, pageRequests, cacheAtStart, nextId>>

storeVars == <<cookieFile, now, storeCall, returned, calls, max_age_hours>>

authVars == <<auth_mode, is_authenticated, current_domain, apc, authRet,
              fileAtManual, fileAtCall, trace, browserAt>>

scrapeVars == <<scraperKind, scrapeUrl, spc, collected, ran, scrapeRet, scrapes>>

\* the variables of the specifications that follow SpecEngine
sharedVars == <<wpc, wcall, rpc, rcall, rbuf, rret, committed, allowed,
                writes, reads>>

threadVars == <<tpc, treq, tout, tfile>>

fetchVars == <<fetcher, retry_attempts, delay, attempt, fpc, failures,
               slept, fret>>

\* the variables of the specifications that follow SpecConcurrent
scrollVars == <<scrollpc, scroll_attempts, no_new_content_count,
                initial_count, growthLog>>

urlVars == <<urlpc, urlArg, supported, built, accepted>>

seqVars == <<seqArgs, runRng, runStep, runWinners>>

lateVars == <<fetchVars, scrollVars, typed, urlVars, seqVars>>

extVars == <<storeVars, authVars, scrapeVars, sharedVars, threadVars,
             lateVars>>

vars == <<heap, result, restored, rng, lastOp, lastSeed, addLog,
          pc, req, sessions, scraped, scrapeOk, cache, outcome, cause,
          logged, createCalls, pageRequests, cacheAtStart, nextId, extVars>>

(***************************************************************************)
(* Inputs.                                                                 *)
(***************************************************************************)
Text_cat == <<"c","a","t">>

\* the Comment objects of Spec, built as the scrapers build them
PoolHeap ==
    << NewComment(<<"a","l","i","c","e">>, <<"I"," ","l","o","v","e"," ","c","a","t","s">>),
       NewComment(<<"b","o","b">>, <<"n","o"," ","p","e","t","s"," ","h","e","r","e"," ","@","a">>),
       NewComment(<<"c","a","r","o","l">>, <<"C","a","t"," ","@","a"," ","@","b">>),
       NewComment(<<"a","l","i","c","e">>, <<"@","a"," ","@","b"," ","h","e","l","l","o">>) >>

\* constructor arguments of the LotteryResult objects of Spec
ResultParams ==
    {[mode |-> "1", keyword |-> Text_cat, mention_count_required |-> 1],
     [mode |-> "2", keyword |-> <<>>, mention_count_required |-> 1]}
    \cup {[mode |-> "3", keyword |-> <<>>, mention_count_required |-> m] :
             m \in 1..MaxMentionRequired}

NoRequest ==
    [url |-> EmptyUrl, mode |-> "2", winner_count |-> 1, keyword |-> <<>>,
     mention_count_required |-> 1, seed |-> NoSeed]

NoOutcome == [status |-> "pending", error |-> ""]

EmptyCache == [id \in {} |-> 0]

\* no file at CookieStorage.file_path
NoFile == <<>>

\* the default of _is_expired's max_age_hours, of update_expiry's argument
\* and of THREADS_SESSION_TIMEOUT
DefaultMaxAgeHours == 24

NoStoreCall == [op |-> "none", domain |-> <<>>]

InitStoreVars ==
    /\ cookieFile = NoFile
    /\ now = 0
    /\ storeCall = NoStoreCall
    /\ returned = <<>>
    /\ calls = 0
    /\ max_age_hours = DefaultMaxAgeHours

\* AuthManager.__init__ and a scraper of which scrape_comments was not called
InitAuthVars ==
    /\ auth_mode = "prompt"
    /\ is_authenticated = FALSE
    /\ current_domain = <<>>
    /\ apc = "none"
    /\ authRet = <<>>
    /\ fileAtManual = NoFile
    /\ fileAtCall = NoFile
    /\ trace = <<>>
    /\ browserAt = "blank"

NoScrapeRet == [status |-> "pending", comments |-> <<>>, message |-> ""]

InitScrapeVars ==
    /\ scraperKind = "none"
    /\ scrapeUrl = EmptyUrl
    /\ spc = "idle"
    /\ collected = <<>>
    /\ ran = <<>>
    /\ scrapeRet = NoScrapeRet
    /\ scrapes = 0

\* no thread is in a CookieStorage call
InitSharedVars ==
    /\ wpc = "idle"
    /\ wcall = [op |-> "none", target |-> NoFile]
    /\ rpc = "idle"
    /\ rcall = [op |-> "none", domain |-> <<>>]
    /\ rbuf = NoFile
    /\ rret = <<>>
    /\ committed = NoFile
    /\ allowed = {}
    /\ writes = 0
    /\ reads = 0

\* no request thread
InitThreadVars ==
    /\ tpc = <<>>
    /\ treq = <<>>
    /\ tout = <<>>
    /\ tfile = <<>>

DefaultRetryAttempts == 3

DefaultDelay == 2

\* no _make_request call is in progress
InitFetchVars ==
    /\ fetcher = "none"
    /\ retry_attempts = DefaultRetryAttempts
    /\ delay = DefaultDelay
    /\ attempt = 0
    /\ fpc = "idle"
    /\ failures = <<>>
    /\ slept = <<>>
    /\ fret = "pending"

\* no _smart_scroll_for_comments call is in progress
InitScrollVars ==
    /\ scrollpc = "idle"
    /\ scroll_attempts = 0
    /\ no_new_content_count = 0
    /\ initial_count = 0
    /\ growthLog = <<>>

\* the ScraperFactory has not been asked anything
InitUrlVars ==
    /\ urlpc = "idle"
    /\ urlArg = EmptyUrl
    /\ supported = FALSE
    /\ built = ""
    /\ accepted = FALSE

\* no process runs a sequence of draws
InitSeqVars ==
    /\ seqArgs = <<>>
    /\ runRng = <<>>
    /\ runStep = <<>>
    /\ runWinners = <<>>

InitLateVars ==
    /\ InitFetchVars /\ InitScrollVars /\ typed = "" /\ InitUrlVars
    /\ InitSeqVars

InitExtVars ==
    /\ InitStoreVars /\ InitAuthVars /\ InitScrapeVars /\ InitSharedVars
    /\ InitThreadVars /\ InitLateVars

InitEngineVars ==
    /\ pc = "idle"
    /\ req = NoRequest
    /\ sessions = <<>>
    /\ scraped = <<>>
    /\ scrapeOk = TRUE
    /\ cache = EmptyCache
    /\ outcome = NoOutcome
    /\ cause = "none"
    /\ logged = ""
    /\ createCalls = 0
    /\ pageRequests = 0
    /\ cacheAtStart = EmptyCache
    /\ nextId = 1

(***************************************************************************)
(* Spec: one LotteryResult object and the operations of its class.         *)
(***************************************************************************)
Init ==
    /\ heap = PoolHeap
    /\ \E p \in ResultParams, w \in 1..MaxWinnerCount :
          result = NewLotteryResult(0, EmptyUrl, p.mode, w, p.keyword,
                                    p.mention_count_required)
    /\ restored = <<>>
    /\ rng \in 0..(RngStates - 1)
    /\ lastOp = "init"
    /\ lastSeed = NoSeed
    /\ addLog = <<>>
    /\ InitEngineVars
    /\ InitExtVars

\* result.add_participant(comment).  The caller keeps the object from_dict
\* returned until its next call on result.
AddParticipant(id) ==
    /\ Len(addLog) < MaxAdds
    /\ result' = add_participant(result, heap, id)
    /\ addLog' = Append(addLog, id)
    /\ lastOp' = "add"
    /\ lastSeed' = NoSeed
    /\ restored' = <<>>
    /\ UNCHANGED <<heap, rng>>
    /\ UNCHANGED <<engineVars, extVars>>

\* result.filter_eligible_participants()
FilterEligible ==
    /\ result' = filter_eligible_participants(result, heap)
    /\ heap' = heap_after_filter(result, heap)
    /\ lastOp' = "filter"
    /\ lastSeed' = NoSeed
    /\ restored' = <<>>
    /\ UNCHANGED <<rng, addLog>>
    /\ UNCHANGED <<engineVars, extVars>>

\* result.conduct_lottery(seed)
ConductLottery(seed) ==
    LET d == conduct_lottery(result, heap, seed, rng)
    IN  /\ result' = d.result
        /\ rng' = d.state
        /\ heap' = heap_after_filter(result, heap)
        /\ lastOp' = "draw"
        /\ lastSeed' = seed
        /\ restored' = <<>>
        /\ UNCHANGED addLog
        /\ UNCHANGED <<engineVars, extVars>>

\* restored = LotteryResult.from_dict(result.to_dict())
RoundTrip ==
    /\ LET d == to_dict(result, heap)
       IN  restored' = <<[r |-> from_dict(d, Len(heap)),
                          comments |-> from_dict_comments(d)]>>
    /\ heap' = heap_after_to_dict(result, heap)
    /\ lastOp' = "from_dict"
    /\ lastSeed' = NoSeed
    /\ UNCHANGED <<result, rng, addLog>>
    /\ UNCHANGED <<engineVars, extVars>>

Next ==
    \/ \E id \in DOMAIN PoolHeap : AddParticipant(id)
    \/ FilterEligible
    \/ \E seed \in Seeds : ConductLottery(seed)
    \/ RoundTrip

Spec == Init /\ [][Next]_vars

(***************************************************************************)
(* SpecFilter: the eligibility filter on one comment whose text, author    *)
(* and filter parameters range over all short strings.                     *)
(***************************************************************************)
KeywordAlphabet == {"a", "A", "b"}

MentionAlphabet == {"@", "a", "A", " ", "."}

\* keywords of a request: conduct_lottery rejects the blank ones,
\* preview_participants takes them all
FilterKeywords == StringsUpTo(KeywordAlphabet, MaxKeywordLen) \cup {<<" ">>}

InitFilter ==
    /\ \/ \E content \in StringsUpTo(KeywordAlphabet \cup {" "}, MaxContentLen),
             keyword \in FilterKeywords :
             /\ heap = <<NewComment(<<"a">>, content)>>
             /\ result = NewLotteryResult(0, EmptyUrl, "1", 1, keyword, 1)
       \/ \E content \in StringsUpTo(MentionAlphabet, MaxMentionTextLen),
             required \in 0..MaxMentionRequired :
             /\ heap = <<NewComment(<<"a">>, content)>>
             /\ result = NewLotteryResult(0, EmptyUrl, "3", 1, <<>>, required)
    /\ restored = <<>>
    /\ rng = 0
    /\ lastOp = "init"
    /\ lastSeed = NoSeed
    /\ addLog = <<>>
    /\ InitEngineVars
    /\ InitExtVars

\* preview_participants, lines 283-294, for the request result was built
\* for: a temporary LotteryResult over the valid comments, filtered
Preview ==
    LET temp_result == NewLotteryResult(result.id, result.post_url,
                           result.mode, 1, result.keyword,
                           result.mention_count_required)
        comments == valid_comments(heap, [i \in DOMAIN heap |-> i])
        filled == add_participants(temp_result, heap, comments)
    IN  /\ result' = filter_eligible_participants(filled, heap)
        /\ heap' = heap_after_filter(filled, heap)
        /\ addLog' = comments
        /\ lastOp' = "preview"
        /\ lastSeed' = NoSeed
        /\ restored' = <<>>
        /\ UNCHANGED rng
        /\ UNCHANGED <<engineVars, extVars>>

NextFilter ==
    \/ \E id \in DOMAIN heap : AddParticipant(id)
    \/ FilterEligible
    \/ Preview

SpecFilter == InitFilter /\ [][NextFilter]_vars

(***************************************************************************)
(* SpecEngine: LotteryEngine.conduct_lottery serving requests, one step of *)
(* the call at a time.                                                     *)
(***************************************************************************)
MaxRequests == 1

\* https://Threads.com/@t/post/1
ThreadsPostUrl ==
    [netloc |-> <<"T","h","r","e","a","d","s",".","c","o","m">>,
     path |-> <<"/","@","t","/","p","o","s","t","/","1">>]

\* https://www.instagram.com/p/x
InstagramPostUrl ==
    [netloc |-> Text_www \o Text_instagram_com,
     path |-> <<"/","p","/","x">>]

\* https://www.facebook.com/post/1
FacebookUrl ==
    [netloc |-> <<"w","w","w",".","f","a","c","e","b","o","o","k",".","c","o","m">>,
     path |-> <<"/","p","o","s","t","/","1">>]

\* https://threads.net/@t : a profile, not a post
ThreadsProfileUrl ==
    [netloc |-> Text_threads_net, path |-> <<"/","@","t">>]

RequestUrls == {EmptyUrl, ThreadsPostUrl, InstagramPostUrl, FacebookUrl,
                ThreadsProfileUrl}

\* the arguments of a conduct_lottery call
Requests ==
    [url : RequestUrls,
     mode : {"1", "2", "3", "9"},
     winner_count : {0, 1},
     keyword : {<<>>, <<" ">>, Text_cat},
     mention_count_required : {0, 2},
     seed : {NoSeed}]

\* the Comment objects a scraper may hand back: those of PoolHeap and one
\* written by a system account
EngineHeap ==
    Append(PoolHeap, NewComment(<<"T","h","r","e","a","d","s">>,
                                <<"L","o","g"," ","i","n">>))

\* what scrape_comments may return, as lists of those objects
ScrapeLists == {<<>>, <<5>>, <<2>>, <<1, 3, 4>>}

\* the caller holds no result between two calls
IdleResult == NewLotteryResult(0, EmptyUrl, "2", 1, <<>>, 1)

\* a result an earlier request left in results_cache
PriorResult ==
    conduct_lottery(
        add_participants(
            [NewLotteryResult(0, ThreadsPostUrl, "2", 1, <<>>, 1)
                EXCEPT !.platform = "threads"],
            EngineHeap, <<1, 3>>),
        EngineHeap, <<0>>, 0).result

InitEngine ==
    /\ heap = EngineHeap
    /\ result = IdleResult
    /\ restored = <<>>
    /\ rng = 0
    /\ lastOp = "init"
    /\ lastSeed = NoSeed
    /\ addLog = <<>>
    /\ pc = "idle"
    /\ req = NoRequest
    /\ sessions = <<>>
    /\ scraped = <<>>
    /\ scrapeOk = TRUE
    /\ cache \in {EmptyCache, [id \in {0} |-> PriorResult]}
    /\ outcome = NoOutcome
    /\ cause = "none"
    /\ logged = ""
    /\ createCalls = 0
    /\ pageRequests = 0
    /\ cacheAtStart = cache
    /\ nextId = 1
    /\ InitExtVars

OpenSession(kind, transport) ==
    [kind |-> kind, transport |-> transport, open |-> TRUE]

\* the scraper's __exit__: close() or cleanup() on the session made last
CloseLast(ss) == [ss EXCEPT ![Len(ss)].open = FALSE]

\* a caller invokes conduct_lottery(url, mode, winner_count, keyword,
\* mention_count_required, seed)
StartRequest(args) ==
    /\ pc = "idle"
    /\ nextId <= MaxRequests
    /\ req' = args
    /\ pc' = "validate"
    /\ cacheAtStart' = cache
    /\ UNCHANGED <<sessions, scraped, scrapeOk, cache, outcome, cause, logged,
                   createCalls, pageRequests, nextId>>
    /\ UNCHANGED <<resultVars, extVars>>

\* line 66 and, when it returns, lines 69-76
Validate ==
    /\ pc = "validate"
    /\ sessions' = IF validation_creates_scraper(req.url)
                   THEN Append(sessions, OpenSession("validate", "http"))
                   ELSE sessions
    /\ LET error == validate_parameters(req.url, req.mode, req.winner_count,
                        req.keyword, req.mention_count_required)
       IN  IF error # ""
           THEN /\ outcome' = [status |-> "raised", error |-> error]
                /\ cause' = "invalid"
                /\ pc' = "done"
                /\ UNCHANGED <<result, nextId, lastOp, addLog>>
           ELSE /\ result' = NewLotteryResult(nextId, req.url, req.mode,
                                 req.winner_count, req.keyword,
                                 req.mention_count_required)
                /\ nextId' = nextId + 1
                /\ lastOp' = "init"
                /\ addLog' = <<>>
                /\ pc' = "primary_create"
                /\ UNCHANGED <<outcome, cause>>
    /\ UNCHANGED <<heap, restored, rng, lastSeed, req, scraped, scrapeOk,
                   cache, logged, createCalls, pageRequests, cacheAtStart,
                   extVars>>

\* _scrape_comments, line 185: create_scraper(url, use_selenium=True); the
\* browser driver may fail to start
PrimaryCreate ==
    /\ pc = "primary_create"
    /\ createCalls' = createCalls + 1
    /\ \/ /\ sessions' = Append(sessions,
                 OpenSession("primary", scraper_transport(req.url, TRUE)))
          /\ pc' = "primary_scrape"
          /\ UNCHANGED logged
       \/ /\ scraper_transport(req.url, TRUE) = "driver"
          /\ logged' = "Selenium scraper failed"
          /\ pc' = "fallback_create"
          /\ UNCHANGED sessions
    /\ UNCHANGED <<req, scraped, scrapeOk, cache, outcome, cause,
                   pageRequests, cacheAtStart, nextId>>
    /\ UNCHANGED <<resultVars, extVars>>

\* scraper.scrape_comments(url): the page is requested, then the call
\* returns a list of comments or raises
Scrape(from, to) ==
    /\ pc = from
    /\ pageRequests' = pageRequests + 1
    /\ \/ /\ scrapeOk' = TRUE
          /\ scraped' \in ScrapeLists
       \/ /\ scrapeOk' = FALSE
          /\ scraped' = <<>>
    /\ pc' = to
    /\ UNCHANGED <<req, sessions, cache, outcome, cause, logged, createCalls,
                   cacheAtStart, nextId>>
    /\ UNCHANGED <<resultVars, extVars>>

PrimaryScrape == Scrape("primary_scrape", "primary_exit")

\* leaving "with scraper:" of the first attempt, lines 186-190
PrimaryExit ==
    /\ pc = "primary_exit"
    /\ sessions' = CloseLast(sessions)
    /\ IF scrapeOk
       THEN pc' = "draw" /\ UNCHANGED logged
       ELSE pc' = "fallback_create" /\ logged' = "Selenium scraper failed"
    /\ UNCHANGED <<req, scraped, scrapeOk, cache, outcome, cause, createCalls,
                   pageRequests, cacheAtStart, nextId>>
    /\ UNCHANGED <<resultVars, extVars>>

\* line 193: create_scraper(url, use_selenium=False)
FallbackCreate ==
    /\ pc = "fallback_create"
    /\ createCalls' = createCalls + 1
    /\ sessions' = Append(sessions,
           OpenSession("fallback", scraper_transport(req.url, FALSE)))
    /\ pc' = "fallback_scrape"
    /\ UNCHANGED <<req, scraped, scrapeOk, cache, outcome, cause, logged,
                   pageRequests, cacheAtStart, nextId>>
    /\ UNCHANGED <<resultVars, extVars>>

FallbackScrape == Scrape("fallback_scrape", "fallback_exit")

\* leaving "with scraper:" of the fallback; when it raised, lines 206-207
\* wrap the error and lines 132-139 return the failed result
FallbackExit ==
    /\ pc = "fallback_exit"
    /\ sessions' = CloseLast(sessions)
    /\ IF scrapeOk
       THEN /\ pc' = "draw"
            /\ UNCHANGED <<result, outcome, cause, logged>>
       ELSE /\ result' = failed_result(result)
            /\ logged' = "Lottery failed: Failed to scrape comments"
            /\ outcome' = [status |-> "returned", error |-> ""]
            /\ cause' = "scrape_failed"
            /\ pc' = "done"
    /\ UNCHANGED <<heap, restored, rng, lastOp, lastSeed, addLog>>
    /\ UNCHANGED <<req, scraped, scrapeOk, cache, createCalls, pageRequests,
                   cacheAtStart, nextId,
                   extVars>>

\* lines 198-204 and 82-139: the valid comments, the platform, the draw,
\* and the return
Draw ==
    /\ pc = "draw"
    /\ LET comments == valid_comments(heap, scraped)
           detected == [result EXCEPT !.platform = detect_platform(req.url)]
           filled == add_participants(detected, heap, comments)
           d == conduct_lottery(filled, heap, req.seed, rng)
       IN  IF comments = <<>>
           THEN /\ result' = failed_result(detected)
                /\ logged' = "Lottery failed: no comments"
                /\ cause' = "no_comments"
                /\ UNCHANGED <<heap, rng, cache, addLog, lastOp, lastSeed>>
           ELSE /\ heap' = heap_after_filter(filled, heap)
                /\ rng' = d.state
                /\ addLog' = comments
                /\ lastOp' = "draw"
                /\ lastSeed' = req.seed
                /\ IF d.result.eligible_count = 0
                   THEN /\ result' = failed_result(d.result)
                        /\ logged' = "Lottery failed: no eligible comments"
                        /\ cause' = "no_eligible"
                        /\ UNCHANGED cache
                   ELSE /\ result' = d.result
                        /\ cache' = [id \in DOMAIN cache \cup {d.result.id} |->
                                        IF id = d.result.id THEN d.result
                                        ELSE cache[id]]
                        /\ cause' = "success"
                        /\ UNCHANGED logged
    /\ outcome' = [status |-> "returned", error |-> ""]
    /\ pc' = "done"
    /\ UNCHANGED <<restored, req, sessions, scraped, scrapeOk, createCalls,
                   pageRequests, cacheAtStart, nextId,
                   extVars>>

\* the caller has the outcome; the engine waits for the next call
Finish ==
    /\ pc = "done"
    /\ pc' = "idle"
    /\ req' = NoRequest
    /\ sessions' = <<>>
    /\ scraped' = <<>>
    /\ scrapeOk' = TRUE
    /\ outcome' = NoOutcome
    /\ cause' = "none"
    /\ logged' = ""
    /\ createCalls' = 0
    /\ pageRequests' = 0
    /\ cacheAtStart' = cache
    /\ result' = IdleResult
    /\ lastOp' = "init"
    /\ lastSeed' = NoSeed
    /\ addLog' = <<>>
    /\ UNCHANGED <<heap, restored, rng, cache, nextId,
                   extVars>>

NextEngine ==
    \/ \E args \in Requests : StartRequest(args)
    \/ Validate
    \/ PrimaryCreate
    \/ PrimaryScrape
    \/ PrimaryExit
    \/ FallbackCreate
    \/ FallbackScrape
    \/ FallbackExit
    \/ Draw
    \/ Finish

SpecEngine == InitEngine /\ [][NextEngine]_vars

\* LotteryEngine.get_result on results_cache c: <<>> stands for None
get_result(c, result_id) ==
    IF result_id \in DOMAIN c THEN <<c[result_id]>> ELSE <<>>

(***************************************************************************)
(* CookieStorage (auth/cookie_storage.py).  The store is one file at       *)
(* file_path.  Its content is <<[written, data]>>: data is the cookie_data *)
(* dictionary that was encrypted, written tells how much of the token has  *)
(* reached the file ("none" after open(.., 'wb') truncated it, "part",     *)
(* "all").  Fernet authenticates the whole token, so decrypt() raises on   *)
(* anything but a complete token.  Time is counted in hours;               *)
(* isoformat()/fromisoformat() give back the datetime they were given.     *)
(***************************************************************************)
\* hours of the clock: 0..MaxClock
MaxClock == 26

\* CookieStorage calls of one run
MaxStoreCalls == 3

\* the cookie lists a browser hands over, as opaque tokens 1..MaxCookies
MaxCookies == 2

NoCookieData == [domain |-> <<>>, saved_at |-> 0, user_agent |-> "", cookies |-> 0]

\* a file whose bytes do not decrypt: written under another key, or cut short
CorruptFile == <<[written |-> "part", data |-> NoCookieData]>>

\* open(file_path, 'wb'): the file exists and is empty
open_wb(data) == <<[written |-> "none", data |-> data]>>

\* the file once f.write(encrypted_data) has reached it whole
written_file(data) == <<[written |-> "all", data |-> data]>>

\* cipher.decrypt + json.loads: <<>> stands for the exception
decrypt(file) == IF file[1].written = "all" THEN <<file[1].data>> ELSE <<>>

\* CookieStorage._is_expired(saved_at, max_age_hours) at time t
is_expired(saved_at, t, max_age) == t - saved_at > max_age

\* CookieStorage.clear_cookies: the value returned and the file afterwards
clear_cookies(file) == [value |-> TRUE, file |-> NoFile]

\* CookieStorage.load_cookies(domain) at time t: <<>> stands for None.
\* _is_expired is called without max_age_hours, so with its default.
load_cookies(file, domain, t) ==
    IF file = NoFile THEN [value |-> <<>>, file |-> file]
    ELSE IF decrypt(file) = <<>> THEN [value |-> <<>>, file |-> file]
    ELSE LET cookie_data == decrypt(file)[1]
         IN  IF cookie_data.domain # domain THEN [value |-> <<>>, file |-> file]
             ELSE IF is_expired(cookie_data.saved_at, t, DefaultMaxAgeHours)
                  THEN [value |-> <<>>, file |-> clear_cookies(file).file]
                  ELSE [value |-> <<cookie_data>>, file |-> file]

\* CookieStorage.save_cookies(cookies, domain, user_agent) at time t;
\* io_ok = FALSE is open() raising, which leaves the file as it was
save_cookies(file, cookies, domain, user_agent, t, io_ok) ==
    LET cookie_data == [domain |-> domain, saved_at |-> t,
                        user_agent |-> user_agent, cookies |-> cookies]
    IN  IF io_ok THEN [value |-> TRUE, file |-> written_file(cookie_data)]
        ELSE [value |-> FALSE, file |-> file]

\* CookieStorage.has_valid_cookies
has_valid_cookies(file, domain, t) ==
    [value |-> load_cookies(file, domain, t).value # <<>>,
     file |-> load_cookies(file, domain, t).file]

\* CookieStorage.get_cookie_info at time t: <<>> stands for None
get_cookie_info(file, t) ==
    IF file = NoFile THEN <<>>
    ELSE IF decrypt(file) = <<>> THEN <<>>
    ELSE LET cookie_data == decrypt(file)[1]
         IN  <<[domain |-> cookie_data.domain, saved_at |-> cookie_data.saved_at,
                cookie_count |-> cookie_data.cookies,
                user_agent |-> cookie_data.user_agent,
                expired |-> is_expired(cookie_data.saved_at, t, DefaultMaxAgeHours)]>>

(***************************************************************************)
(* SpecStore: one CookieStorage object, its methods called one after the   *)
(* other while the clock advances.                                         *)
(***************************************************************************)
\* the domains sessions are saved and asked for
StoreDomains == {Text_www \o Text_threads_com, Text_threads_net}

UserAgent == "Mozilla/5.0"

\* the clock advances by one of these amounts
TickHours == {12, 13}

\* the horizons update_expiry is called with
Horizons == {12, DefaultMaxAgeHours}

InitStore ==
    /\ heap = <<>>
    /\ result = IdleResult
    /\ restored = <<>>
    /\ rng = 0
    /\ lastOp = "init"
    /\ lastSeed = NoSeed
    /\ addLog = <<>>
    /\ InitEngineVars
    /\ cookieFile \in {NoFile, CorruptFile}
    /\ now = 0
    /\ storeCall = NoStoreCall
    /\ returned = <<>>
    /\ calls = 0
    /\ max_age_hours = DefaultMaxAgeHours
    /\ InitAuthVars
    /\ InitScrapeVars
    /\ InitSharedVars
    /\ InitThreadVars
    /\ InitLateVars

StoreFrame ==
    UNCHANGED <<resultVars, engineVars, authVars, scrapeVars, sharedVars,
                threadVars, lateVars>>

Save(cookies, domain, io_ok) ==
    /\ calls < MaxStoreCalls
    /\ LET r == save_cookies(cookieFile, cookies, domain, UserAgent, now, io_ok)
       IN  /\ cookieFile' = r.file
           /\ returned' = <<r.value>>
    /\ storeCall' = [op |-> "save", domain |-> domain]
    /\ calls' = calls + 1
    /\ UNCHANGED <<now, max_age_hours>>
    /\ StoreFrame

Load(domain) ==
    /\ calls < MaxStoreCalls
    /\ LET r == load_cookies(cookieFile, domain, now)
       IN  /\ cookieFile' = r.file
           /\ returned' = r.value
    /\ storeCall' = [op |-> "load", domain |-> domain]
    /\ calls' = calls + 1
    /\ UNCHANGED <<now, max_age_hours>>
    /\ StoreFrame

Clear ==
    /\ calls < MaxStoreCalls
    /\ cookieFile' = clear_cookies(cookieFile).file
    /\ returned' = <<clear_cookies(cookieFile).value>>
    /\ storeCall' = [op |-> "clear", domain |-> <<>>]
    /\ calls' = calls + 1
    /\ UNCHANGED <<now, max_age_hours>>
    /\ StoreFrame

HasValid(domain) ==
    /\ calls < MaxStoreCalls
    /\ LET r == has_valid_cookies(cookieFile, domain, now)
       IN  /\ cookieFile' = r.file
           /\ returned' = <<r.value>>
    /\ storeCall' = [op |-> "has_valid", domain |-> domain]
    /\ calls' = calls + 1
    /\ UNCHANGED <<now, max_age_hours>>
    /\ StoreFrame

GetInfo ==
    /\ calls < MaxStoreCalls
    /\ returned' = get_cookie_info(cookieFile, now)
    /\ storeCall' = [op |-> "info", domain |-> <<>>]
    /\ calls' = calls + 1
    /\ UNCHANGED <<cookieFile, now, max_age_hours>>
    /\ StoreFrame

\* CookieStorage.update_expiry
UpdateExpiry(hours) ==
    /\ calls < MaxStoreCalls
    /\ max_age_hours' = hours
    /\ returned' = <<>>
    /\ storeCall' = [op |-> "update_expiry", domain |-> <<>>]
    /\ calls' = calls + 1
    /\ UNCHANGED <<cookieFile, now>>
    /\ StoreFrame

Tick(d) ==
    /\ now + d <= MaxClock
    /\ now' = now + d
    /\ UNCHANGED <<cookieFile, storeCall, returned, calls, max_age_hours>>
    /\ StoreFrame

NextStore ==
    \/ \E cookies \in 1..MaxCookies, domain \in StoreDomains, io_ok \in BOOLEAN :
          Save(cookies, domain, io_ok)
    \/ \E domain \in StoreDomains : Load(domain)
    \/ Clear
    \/ \E domain \in StoreDomains : HasValid(domain)
    \/ GetInfo
    \/ \E hours \in Horizons : UpdateExpiry(hours)
    \/ \E d \in TickHours : Tick(d)

SpecStore == InitStore /\ [][NextStore]_vars

(***************************************************************************)
(* AuthManager (auth/auth_manager.py) and the scrape_comments methods of   *)
(* the three scrapers.  What the browser, the network and the person at    *)
(* the keyboard do is chosen freely at the step that meets it.  trace      *)
(* records, in order, the calls a scrape_comments call makes on the        *)
(* browser, the store and the keyboard, and what _auto_authenticate        *)
(* returned.                                                               *)
(***************************************************************************)
\* scrape_comments calls of one run
MaxScrapes == 2

\* input() calls of one _prompt_and_authenticate call
MaxChoices == 2

\* AuthMode
AuthModes == {"disabled", "manual", "auto", "prompt"}

\* number of times event e is in trace tr
Count(tr, e) == Cardinality({i \in DOMAIN tr : tr[i] = e})

\* AuthManager._extract_domain
extract_domain(url) == lower(url.netloc)

\* AuthManager._needs_authentication
needs_authentication(domain) == \E d \in THREADS_DOMAINS : StrIn(d, domain)

\* AuthManager._verify_authentication: page is where the browser is,
\* indicators tells whether the page source passes the indicator counts
verify_authentication(page, indicators) == page # "login" /\ indicators

\* SeleniumThreadsScraper._check_login_required
check_login_required(page, indicators) == page = "login" \/ indicators

\* the slip of going on to the browser without cookies
auto_proceeds_always(cookie_data) == TRUE

\* `if not cookie_data: return False` of _auto_authenticate, negated
auto_proceeds(cookie_data) == cookie_data # <<>>

\* the slip of asking the person before anything else
prompt_asks_first(has_valid) == FALSE

\* `if self.cookie_storage.has_valid_cookies(domain):` of
\* _prompt_and_authenticate
prompt_tries_auto(has_valid) == has_valid

\* the slip of saving the cookies whatever the verification says
manual_saves_unverified(verified) == TRUE

\* save_cookies stands inside `if self._verify_authentication(driver, domain):`
manual_saves(verified) == verified

\* the slip of going on whatever authenticate_for_url returned
retries_always(authenticated) == TRUE

\* `if self.auth_manager.authenticate_for_url(self.driver, url):`
retries_after(authenticated) == authenticated

\* the slip of running a fallback strategy whatever was found before
runs_always(found) == TRUE

\* `if not comments:` in front of strategies 2 and 3
runs_next(found) == found = <<>>

\* the records a strategy returned, marked with the strategy they come from
Tagged(k, keys) == [i \in DOMAIN keys |-> [from |-> k, key |-> keys[i]]]

\* SeleniumThreadsScraper._deduplicate_comments: the first record of each key
RECURSIVE deduplicate_comments(_)
deduplicate_comments(list) ==
    IF list = <<>> THEN <<>>
    ELSE LET front == deduplicate_comments(SubSeq(list, 1, Len(list) - 1))
             last == list[Len(list)]
         IN  IF \E i \in DOMAIN front : front[i].key = last.key
             THEN front ELSE Append(front, last)

\* raise ScrapingError(message)
ScrapingError(message) ==
    [status |-> "ScrapingError", comments |-> <<>>, message |-> message]

\* https://Www.threads.com/@t/post/1
WwwThreadsPostUrl ==
    [netloc |-> <<"W","w","w",".">> \o Text_threads_com,
     path |-> <<"/","@","t","/","p","o","s","t","/","1">>]

\* https://threads.net/@t/post/1
ThreadsNetPostUrl ==
    [netloc |-> Text_threads_net,
     path |-> <<"/","@","t","/","p","o","s","t","/","1">>]

\* the url arguments of scrape_comments
ScrapeUrls == {WwwThreadsPostUrl, ThreadsNetPostUrl, ThreadsProfileUrl,
               InstagramPostUrl}

ScraperKinds == {"threads", "instagram", "selenium_threads"}

\* validate_url of the scraper class
validate_url(k, url) ==
    IF k = "instagram" THEN instagram_validate_url(url)
    ELSE threads_validate_url(url)

\* what a strategy can return: the keys (username, content) of its records
StrategyOutputs == {<<>>, <<1>>, <<1, 1>>}

\* the cookie files a process can find when it starts
StartFiles ==
    {NoFile, CorruptFile}
    \cup {written_file([domain |-> d, saved_at |-> 0,
                        user_agent |-> UserAgent, cookies |-> 1]) :
             d \in StoreDomains}

InitScrape ==
    /\ heap = <<>>
    /\ result = IdleResult
    /\ restored = <<>>
    /\ rng = 0
    /\ lastOp = "init"
    /\ lastSeed = NoSeed
    /\ addLog = <<>>
    /\ InitEngineVars
    /\ cookieFile \in StartFiles
    /\ now = 0
    /\ storeCall = NoStoreCall
    /\ returned = <<>>
    /\ calls = 0
    /\ max_age_hours = DefaultMaxAgeHours
    /\ auth_mode \in AuthModes
    /\ is_authenticated = FALSE
    /\ current_domain = <<>>
    /\ apc = "none"
    /\ authRet = <<>>
    /\ fileAtManual = NoFile
    /\ fileAtCall = NoFile
    /\ trace = <<>>
    /\ browserAt = "blank"
    /\ InitScrapeVars
    /\ InitSharedVars
    /\ InitThreadVars
    /\ InitLateVars

ScrapeFrame ==
    UNCHANGED <<resultVars, engineVars, storeCall, returned, calls,
                max_age_hours, auth_mode, sharedVars, threadVars, lateVars>>

\* the scraper is not touched by a step of authenticate_for_url
AuthFrame ==
    /\ ScrapeFrame
    /\ UNCHANGED <<now, fileAtCall, scrapeVars>>

\* authenticate_for_url returns value
AuthReturns(value) ==
    /\ apc' = "ret"
    /\ authRet' = <<value>>

\* _auto_authenticate returns False: to the caller of authenticate_for_url,
\* or to _prompt_and_authenticate, which goes on to ask
AutoFailed ==
    IF auth_mode = "prompt"
    THEN apc' = "prompt_input" /\ authRet' = <<>>
    ELSE AuthReturns(FALSE)

\* authenticate_for_url up to the call of one of the three methods
AuthBegin ==
    /\ apc = "begin"
    /\ LET domain == extract_domain(scrapeUrl)
       IN  IF \/ auth_mode = "disabled"
              \/ domain = <<>>
              \/ ~needs_authentication(domain)
           THEN /\ AuthReturns(TRUE)
                /\ UNCHANGED <<current_domain, fileAtManual>>
           ELSE /\ current_domain' = domain
                /\ apc' = CASE auth_mode = "auto" -> "auto_load"
                            [] auth_mode = "manual" -> "manual_get"
                            [] auth_mode = "prompt" -> "prompt_check"
                /\ authRet' = <<>>
                /\ fileAtManual' = IF auth_mode = "manual" THEN cookieFile
                                   ELSE fileAtManual
    /\ UNCHANGED <<cookieFile, is_authenticated, trace, browserAt>>
    /\ AuthFrame

\* _auto_authenticate: load_cookies and the test of what it returned
AutoLoad ==
    /\ apc = "auto_load"
    /\ LET r == load_cookies(cookieFile, current_domain, now)
       IN  /\ cookieFile' = r.file
           /\ IF auto_proceeds(r.value)
              THEN /\ apc' = "auto_get" /\ authRet' = <<>>
                   /\ trace' = Append(trace, "load")
              ELSE /\ AutoFailed
                   /\ trace' = trace \o <<"load", "auto_false">>
    /\ UNCHANGED <<is_authenticated, current_domain, fileAtManual, browserAt>>
    /\ AuthFrame

\* _auto_authenticate: driver.get(base_url), add_cookie, driver.refresh
AutoNavigate(ok) ==
    /\ apc = "auto_get"
    /\ IF ok
       THEN /\ trace' = trace \o <<"get_base", "add_cookies", "refresh">>
            /\ browserAt' = "base"
            /\ apc' = "auto_verify"
            /\ authRet' = <<>>
       ELSE /\ trace' = trace \o <<"get_base", "auto_false">>
            /\ browserAt' = browserAt
            /\ AutoFailed
    /\ UNCHANGED <<cookieFile, is_authenticated, current_domain, fileAtManual>>
    /\ AuthFrame

\* _auto_authenticate: _verify_authentication and what follows
AutoVerify(indicators) ==
    /\ apc = "auto_verify"
    /\ IF verify_authentication(browserAt, indicators)
       THEN /\ is_authenticated' = TRUE
            /\ AuthReturns(TRUE)
            /\ trace' = trace \o <<"verify", "auto_true">>
            /\ cookieFile' = cookieFile
       ELSE /\ is_authenticated' = is_authenticated
            /\ AutoFailed
            /\ trace' = trace \o <<"verify", "clear", "auto_false">>
            /\ cookieFile' = clear_cookies(cookieFile).file
    /\ UNCHANGED <<current_domain, fileAtManual, browserAt>>
    /\ AuthFrame

\* _prompt_and_authenticate: has_valid_cookies
PromptCheck ==
    /\ apc = "prompt_check"
    /\ LET r == has_valid_cookies(cookieFile, current_domain, now)
       IN  /\ cookieFile' = r.file
           /\ apc' = IF prompt_tries_auto(r.value) THEN "auto_load"
                     ELSE "prompt_input"
    /\ trace' = Append(trace, "has_valid")
    /\ UNCHANGED <<is_authenticated, current_domain, authRet, fileAtManual,
                   browserAt>>
    /\ AuthFrame

\* _prompt_and_authenticate: one input() of the loop; "EOF" is input() raising
PromptInput(choice) ==
    /\ apc = "prompt_input"
    /\ trace' = Append(trace, "ask_choice")
    /\ CASE choice = "1" ->
              /\ apc' = "manual_get"
              /\ authRet' = <<>>
              /\ fileAtManual' = cookieFile
         [] choice = "2" ->
              /\ AuthReturns(TRUE)
              /\ fileAtManual' = fileAtManual
         [] choice = "EOF" ->
              /\ apc' = "raised"
              /\ authRet' = <<>>
              /\ fileAtManual' = fileAtManual
         [] OTHER ->
              /\ Count(trace, "ask_choice") + 1 < MaxChoices
              /\ UNCHANGED <<apc, authRet, fileAtManual>>
    /\ UNCHANGED <<cookieFile, is_authenticated, current_domain, browserAt>>
    /\ AuthFrame

\* _manual_authenticate: driver.get(login_url)
ManualNavigate(ok) ==
    /\ apc = "manual_get"
    /\ trace' = Append(trace, "get_login")
    /\ IF ok
       THEN /\ browserAt' = "login"
            /\ apc' = "manual_input"
            /\ authRet' = <<>>
       ELSE /\ browserAt' = browserAt
            /\ AuthReturns(FALSE)
    /\ UNCHANGED <<cookieFile, is_authenticated, current_domain, fileAtManual>>
    /\ AuthFrame

\* _manual_authenticate: input(), while the person logs in or does not;
\* ok = FALSE is input() raising
ManualInput(ok, page) ==
    /\ apc = "manual_input"
    /\ trace' = Append(trace, "ask_confirm")
    /\ IF ok
       THEN /\ browserAt' = page
            /\ apc' = "manual_verify"
            /\ authRet' = <<>>
       ELSE /\ browserAt' = browserAt
            /\ AuthReturns(FALSE)
    /\ UNCHANGED <<cookieFile, is_authenticated, current_domain, fileAtManual>>
    /\ AuthFrame

\* _manual_authenticate: _verify_authentication and what follows
ManualVerify(indicators, cookies, io_ok) ==
    /\ apc = "manual_verify"
    /\ LET verified == verify_authentication(browserAt, indicators)
       IN  /\ IF manual_saves(verified)
              THEN /\ cookieFile' = save_cookies(cookieFile, cookies,
                                                 current_domain, UserAgent,
                                                 now, io_ok).file
                   /\ trace' = trace \o <<"verify", "save">>
              ELSE /\ cookieFile' = cookieFile
                   /\ trace' = Append(trace, "verify")
           /\ is_authenticated' = IF verified THEN TRUE ELSE is_authenticated
           /\ AuthReturns(verified)
    /\ UNCHANGED <<current_domain, fileAtManual, browserAt>>
    /\ AuthFrame

\* a step of scrape_comments leaves the AuthManager's call as it is
ScrapeStepFrame ==
    /\ ScrapeFrame
    /\ UNCHANGED <<cookieFile, now, is_authenticated, current_domain,
                   authRet, fileAtManual, scraperKind, scrapeUrl, scrapes>>

\* the exception handler of scrape_comments
Raise(message) ==
    /\ spc' = "done"
    /\ scrapeRet' = ScrapingError(message)

\* a scraper is created, with its AuthManager, and scrape_comments is called
ScrapeStart(k, url) ==
    /\ spc = "idle"
    /\ scrapes < MaxScrapes
    /\ scraperKind' = k
    /\ scrapeUrl' = url
    /\ IF validate_url(k, url)
       THEN spc' = "request" /\ scrapeRet' = NoScrapeRet
       ELSE Raise("Invalid URL")
    /\ UNCHANGED <<cookieFile, now, is_authenticated, current_domain, apc,
                   authRet, fileAtManual, fileAtCall, trace, browserAt,
                   collected, ran, scrapes>>
    /\ ScrapeFrame

\* _make_request(url)
MakeRequest(ok) ==
    /\ spc = "request"
    /\ trace' = Append(trace, "get_post")
    /\ IF ok
       THEN /\ spc' = IF scraperKind = "selenium_threads" THEN "check1" ELSE "s1"
            /\ browserAt' = IF scraperKind = "selenium_threads" THEN "post"
                            ELSE browserAt
            /\ scrapeRet' = scrapeRet
       ELSE /\ Raise("Failed to scrape comments")
            /\ browserAt' = browserAt
    /\ UNCHANGED <<apc, collected, ran, fileAtCall>>
    /\ ScrapeStepFrame

\* the first _check_login_required, and the call of authenticate_for_url
CheckLoginFirst(indicators) ==
    /\ spc = "check1"
    /\ IF check_login_required(browserAt, indicators)
       THEN /\ trace' = trace \o <<"check_wall", "auth_call">>
            /\ spc' = "auth"
            /\ apc' = "begin"
            /\ fileAtCall' = cookieFile
       ELSE /\ trace' = Append(trace, "check_clear")
            /\ spc' = "s1"
            /\ apc' = apc
            /\ fileAtCall' = fileAtCall
    /\ UNCHANGED <<browserAt, collected, ran, scrapeRet>>
    /\ ScrapeStepFrame

\* authenticate_for_url is back: driver.refresh() or ScrapingError
AuthReturn ==
    /\ spc = "auth"
    /\ apc \in {"ret", "raised"}
    /\ apc' = "none"
    /\ IF apc = "raised"
       THEN Raise("Failed to scrape comments") /\ trace' = trace
       ELSE IF retries_after(authRet[1])
            THEN /\ trace' = Append(trace, "reload")
                 /\ spc' = "check2"
                 /\ scrapeRet' = scrapeRet
            ELSE /\ Raise("Authentication was not completed")
                 /\ trace' = trace
    /\ UNCHANGED <<browserAt, collected, ran, fileAtCall>>
    /\ ScrapeStepFrame

\* the second _check_login_required
CheckLoginAgain(indicators) ==
    /\ spc = "check2"
    /\ IF check_login_required(browserAt, indicators)
       THEN /\ Raise("Authentication failed - still requires login")
            /\ trace' = Append(trace, "check_wall")
       ELSE /\ spc' = "s1" /\ scrapeRet' = scrapeRet
            /\ trace' = Append(trace, "check_clear")
    /\ UNCHANGED <<apc, browserAt, collected, ran, fileAtCall>>
    /\ ScrapeStepFrame

\* the place of strategy k in scrape_comments, and the place after it
StrategyAt(k) == CASE k = 1 -> "s1" [] k = 2 -> "s2" [] k = 3 -> "s3"

AfterStrategy(k) == CASE k = 1 -> "s2" [] k = 2 -> "s3" [] k = 3 -> "return"

\* strategy k of scrape_comments: keys is what it finds, ok = FALSE is an
\* exception inside the strategy.  _extract_with_selenium and
\* _extract_with_javascript of the Selenium scraper catch every exception
\* themselves and return their list; the BeautifulSoup strategy (get_soup,
\* _extract_with_beautifulsoup) and the three strategies of the HTTP scrapers
\* do not, so the exception reaches the handler of scrape_comments.
\* _extract_from_html_structure of the HTTP scrapers returns
\* self._deduplicate_comments(comments).
Strategy(k, keys, ok) ==
    LET selenium == scraperKind = "selenium_threads"
        caught == selenium /\ k \in {1, 3}
        out == IF ~ok THEN <<>>
               ELSE IF ~selenium /\ k = 2
                    THEN deduplicate_comments(Tagged(k, keys))
                    ELSE Tagged(k, keys)
    IN  /\ spc = StrategyAt(k)
        /\ IF k = 1 \/ runs_next(collected)
           THEN /\ ran' = Append(ran, [strategy |-> k, out |-> out,
                                       raised |-> ~ok])
                /\ collected' = collected \o out
                /\ IF ok \/ caught
                   THEN spc' = AfterStrategy(k) /\ scrapeRet' = scrapeRet
                   ELSE Raise("Failed to scrape comments")
           ELSE /\ spc' = AfterStrategy(k)
                /\ UNCHANGED <<ran, collected, scrapeRet>>
        /\ UNCHANGED <<apc, trace, browserAt, fileAtCall>>
        /\ ScrapeStepFrame

\* return comments; the Selenium scraper removes duplicates first
Return ==
    /\ spc = "return"
    /\ spc' = "done"
    /\ scrapeRet' =
          [status |-> "ok",
           comments |-> IF scraperKind = "selenium_threads"
                        THEN deduplicate_comments(collected) ELSE collected,
           message |-> ""]
    /\ UNCHANGED <<apc, trace, browserAt, collected, ran, fileAtCall>>
    /\ ScrapeStepFrame

\* the caller is done with the scraper: cleanup()
ScrapeEnd ==
    /\ spc = "done"
    /\ spc' = "idle"
    /\ scrapes' = scrapes + 1
    /\ scraperKind' = "none"
    /\ scrapeUrl' = EmptyUrl
    /\ collected' = <<>>
    /\ ran' = <<>>
    /\ scrapeRet' = NoScrapeRet
    /\ is_authenticated' = FALSE
    /\ current_domain' = <<>>
    /\ apc' = "none"
    /\ authRet' = <<>>
    /\ fileAtManual' = NoFile
    /\ fileAtCall' = NoFile
    /\ trace' = <<>>
    /\ browserAt' = "blank"
    /\ UNCHANGED <<cookieFile, now>>
    /\ ScrapeFrame

\* time passes between two scrape_comments calls
TickIdle(d) ==
    /\ spc = "idle"
    /\ now + d <= MaxClock
    /\ now' = now + d
    /\ UNCHANGED <<cookieFile, authVars, scrapeVars>>
    /\ UNCHANGED <<resultVars, engineVars, storeCall, returned, calls,
                   max_age_hours, sharedVars, threadVars, lateVars>>

NextScrape ==
    \/ \E k \in ScraperKinds, url \in ScrapeUrls : ScrapeStart(k, url)
    \/ \E ok \in BOOLEAN : MakeRequest(ok)
    \/ \E indicators \in BOOLEAN : CheckLoginFirst(indicators)
    \/ AuthBegin
    \/ AutoLoad
    \/ \E ok \in BOOLEAN : AutoNavigate(ok)
    \/ \E indicators \in BOOLEAN : AutoVerify(indicators)
    \/ PromptCheck
    \/ \E choice \in {"1", "2", "x", "EOF"} : PromptInput(choice)
    \/ \E ok \in BOOLEAN : ManualNavigate(ok)
    \/ \E ok \in BOOLEAN, page \in {"login", "home"} : ManualInput(ok, page)
    \/ \E indicators \in BOOLEAN, cookies \in 1..MaxCookies, io_ok \in BOOLEAN :
          ManualVerify(indicators, cookies, io_ok)
    \/ AuthReturn
    \/ \E indicators \in BOOLEAN : CheckLoginAgain(indicators)
    \/ \E k \in 1..3, keys \in StrategyOutputs, ok \in BOOLEAN :
          Strategy(k, keys, ok)
    \/ Return
    \/ ScrapeEnd
    \/ \E d \in TickHours : TickIdle(d)

SpecScrape == InitScrape /\ [][NextScrape]_vars

(***************************************************************************)
(* SpecStoreShared: two CookieStorage objects on the same file_path, one   *)
(* in a thread that writes (save_cookies or clear_cookies), one in a       *)
(* thread that reads (load_cookies or get_cookie_info).  Every access to   *)
(* the file is a step of its own, so the threads interleave as the         *)
(* operating system lets them.                                             *)
(***************************************************************************)
\* writing calls of one run
MaxWrites == 1

\* reading calls of one run
MaxReads == 1

NoWrite == [op |-> "none", target |-> NoFile]

NoRead == [op |-> "none", domain |-> <<>>]

\* the complete files a run starts with
SharedStartFiles ==
    {NoFile}
    \cup {written_file([domain |-> d, saved_at |-> 0,
                        user_agent |-> UserAgent, cookies |-> 1]) :
             d \in StoreDomains}

\* what a reading call returns when it meets the complete file f
ReadOf(f, call) ==
    IF call.op = "load" THEN load_cookies(f, call.domain, now).value
    ELSE get_cookie_info(f, now)

InitStoreShared ==
    /\ heap = <<>>
    /\ result = IdleResult
    /\ restored = <<>>
    /\ rng = 0
    /\ lastOp = "init"
    /\ lastSeed = NoSeed
    /\ addLog = <<>>
    /\ InitEngineVars
    /\ cookieFile \in SharedStartFiles
    /\ now = 0
    /\ storeCall = NoStoreCall
    /\ returned = <<>>
    /\ calls = 0
    /\ max_age_hours = DefaultMaxAgeHours
    /\ InitAuthVars
    /\ InitScrapeVars
    /\ wpc = "idle"
    /\ wcall = NoWrite
    /\ rpc = "idle"
    /\ rcall = NoRead
    /\ rbuf = NoFile
    /\ rret = <<>>
    /\ committed = cookieFile
    /\ allowed = {}
    /\ writes = 0
    /\ reads = 0
    /\ InitThreadVars
    /\ InitLateVars

SharedFrame ==
    UNCHANGED <<resultVars, engineVars, authVars, scrapeVars, now, storeCall,
                returned, calls, max_age_hours, threadVars, lateVars>>

WriterFrame == SharedFrame /\ UNCHANGED <<rpc, rcall, rbuf, rret, reads>>

ReaderFrame == SharedFrame /\ UNCHANGED <<wpc, wcall, committed, writes>>

\* save_cookies(cookies, domain) is called: cookie_data is built and encrypted
WriterSave(cookies, domain) ==
    /\ wpc = "idle"
    /\ writes < MaxWrites
    /\ wcall' = [op |-> "save",
                 target |-> save_cookies(cookieFile, cookies, domain,
                                         UserAgent, now, TRUE).file]
    /\ wpc' = "open"
    /\ allowed' = IF rpc \in {"idle", "done"} THEN allowed
                  ELSE allowed \cup {wcall'.target}
    /\ UNCHANGED <<cookieFile, committed, writes>>
    /\ WriterFrame

\* save_cookies: open(self.file_path, 'wb')
WriterOpen ==
    /\ wpc = "open"
    /\ cookieFile' = open_wb(wcall.target[1].data)
    /\ wpc' = "write"
    /\ UNCHANGED <<wcall, committed, allowed, writes>>
    /\ WriterFrame

\* save_cookies: f.write(encrypted_data) reaches the file, in one piece or
\* a first part of it
WriterWrite(whole) ==
    /\ wpc = "write"
    /\ cookieFile[1].written # "all"
    /\ IF whole
       THEN cookieFile' = wcall.target
       ELSE /\ cookieFile[1].written = "none"
            /\ cookieFile' = <<[cookieFile[1] EXCEPT !.written = "part"]>>
    /\ UNCHANGED <<wpc, wcall, committed, allowed, writes>>
    /\ WriterFrame

\* save_cookies: the with block is left and the call returns
WriterClose ==
    /\ wpc = "write"
    /\ cookieFile = wcall.target
    /\ wpc' = "idle"
    /\ committed' = wcall.target
    /\ writes' = writes + 1
    /\ wcall' = NoWrite
    /\ UNCHANGED <<cookieFile, allowed>>
    /\ WriterFrame

\* clear_cookies: exists() and unlink()
WriterClear ==
    /\ wpc = "idle"
    /\ writes < MaxWrites
    /\ cookieFile' = clear_cookies(cookieFile).file
    /\ committed' = NoFile
    /\ writes' = writes + 1
    /\ allowed' = IF rpc \in {"idle", "done"} THEN allowed
                  ELSE allowed \cup {NoFile}
    /\ UNCHANGED <<wpc, wcall>>
    /\ WriterFrame

\* load_cookies(domain) or get_cookie_info() is called
ReaderStart(op, domain) ==
    /\ rpc \in {"idle", "done"}
    /\ reads < MaxReads
    /\ rcall' = [op |-> op, domain |-> domain]
    /\ rpc' = "exists"
    /\ rbuf' = NoFile
    /\ rret' = <<>>
    /\ allowed' = {committed}
                  \cup (IF wpc = "idle" THEN {} ELSE {wcall.target})
    /\ UNCHANGED <<cookieFile, reads>>
    /\ ReaderFrame

\* if not self.file_path.exists(): return None
ReaderExists ==
    /\ rpc = "exists"
    /\ IF cookieFile = NoFile
       THEN rpc' = "done" /\ reads' = reads + 1
       ELSE rpc' = "read" /\ reads' = reads
    /\ UNCHANGED <<cookieFile, rcall, rbuf, rret, allowed>>
    /\ ReaderFrame

\* open(self.file_path, 'rb') and f.read(); open raises when the file is gone
ReaderRead ==
    /\ rpc = "read"
    /\ IF cookieFile = NoFile
       THEN rpc' = "done" /\ reads' = reads + 1 /\ rbuf' = rbuf
       ELSE rpc' = "decide" /\ reads' = reads /\ rbuf' = cookieFile
    /\ UNCHANGED <<cookieFile, rcall, rret, allowed>>
    /\ ReaderFrame

\* decrypt, the tests on cookie_data, and the return
ReaderDecide ==
    /\ rpc = "decide"
    /\ rpc' = "done"
    /\ reads' = reads + 1
    /\ IF rcall.op = "load"
       THEN /\ rret' = load_cookies(rbuf, rcall.domain, now).value
            /\ cookieFile' = IF load_cookies(rbuf, rcall.domain, now).file = rbuf
                             THEN cookieFile
                             ELSE clear_cookies(cookieFile).file
       ELSE /\ rret' = get_cookie_info(rbuf, now)
            /\ cookieFile' = cookieFile
    /\ UNCHANGED <<rcall, rbuf, allowed>>
    /\ ReaderFrame

NextStoreShared ==
    \/ \E cookies \in 1..MaxCookies, domain \in StoreDomains :
          WriterSave(cookies, domain)
    \/ WriterOpen
    \/ \E whole \in BOOLEAN : WriterWrite(whole)
    \/ WriterClose
    \/ WriterClear
    \/ \E op \in {"load", "info"}, domain \in StoreDomains : ReaderStart(op, domain)
    \/ ReaderExists
    \/ ReaderRead
    \/ ReaderDecide

SpecStoreShared == InitStoreShared /\ [][NextStoreShared]_vars

(***************************************************************************)
(* SpecConcurrent: two lottery requests served by two threads of one       *)
(* process, in auto mode.  Each thread has its own scraper, AuthManager,   *)
(* CookieStorage object and LotteryResult; the cookie file and the random  *)
(* module's generator are the process's.  Of a request only the steps that *)
(* touch these two are separate steps: what the pages show and which       *)
(* comments are scraped are fixed with the request.                        *)
(***************************************************************************)
Threads == {1, 2}

\* https://www.threads.com/@t/post/2
WwwThreadsPost2Url ==
    [netloc |-> Text_www \o Text_threads_com,
     path |-> <<"/","@","t","/","p","o","s","t","/","2">>]

\* the two threads are given different urls
ThreadUrl(t) == IF t = 1 THEN WwwThreadsPostUrl ELSE WwwThreadsPost2Url

\* the eligible participants of a request, as object ids
ThreadParticipants == <<1, 2, 3>>

\* a request and what its pages show: wall tells whether the first page
\* load meets the login wall, accepted whether the site accepts the cookies
ThreadRequests(t) ==
    [url : {ThreadUrl(t)}, wall : BOOLEAN, accepted : BOOLEAN,
     seed : Seeds, winner_count : {1, 2}]

NoThreadRequest ==
    [url |-> EmptyUrl, wall |-> FALSE, accepted |-> FALSE, seed |-> NoSeed,
     winner_count |-> 1]

NoThreadOutcome == [status |-> "pending", winners |-> <<>>]

InitConcurrent ==
    /\ heap = <<>>
    /\ result = IdleResult
    /\ restored = <<>>
    /\ rng = 0
    /\ lastOp = "init"
    /\ lastSeed = NoSeed
    /\ addLog = <<>>
    /\ InitEngineVars
    /\ cookieFile \in
          {NoFile,
           written_file([domain |-> Text_www \o Text_threads_com,
                         saved_at |-> 0, user_agent |-> UserAgent,
                         cookies |-> 1])}
    /\ now = 0
    /\ storeCall = NoStoreCall
    /\ returned = <<>>
    /\ calls = 0
    /\ max_age_hours = DefaultMaxAgeHours
    /\ auth_mode = "auto"
    /\ is_authenticated = FALSE
    /\ current_domain = <<>>
    /\ apc = "none"
    /\ authRet = <<>>
    /\ fileAtManual = NoFile
    /\ fileAtCall = NoFile
    /\ trace = <<>>
    /\ browserAt = "blank"
    /\ InitScrapeVars
    /\ InitSharedVars
    /\ tpc = [t \in Threads |-> "idle"]
    /\ treq = [t \in Threads |-> NoThreadRequest]
    /\ tout = [t \in Threads |-> NoThreadOutcome]
    /\ tfile = [t \in Threads |-> NoFile]
    /\ InitLateVars

ConcurrentFrame ==
    UNCHANGED <<heap, result, restored, lastOp, lastSeed, addLog, engineVars,
                now, storeCall, returned, calls, max_age_hours, authVars,
                scrapeVars, sharedVars, lateVars>>

\* thread t is given a request; its scraper loads the page
ThreadStart(t, q) ==
    /\ tpc[t] = "idle"
    /\ treq' = [treq EXCEPT ![t] = q]
    /\ tpc' = [tpc EXCEPT ![t] = IF q.wall THEN "load" ELSE "seed"]
    /\ tfile' = [tfile EXCEPT ![t] = cookieFile]
    /\ UNCHANGED <<cookieFile, rng, tout>>
    /\ ConcurrentFrame

\* _auto_authenticate of thread t: load_cookies
ThreadAutoLoad(t) ==
    /\ tpc[t] = "load"
    /\ LET r == load_cookies(cookieFile, extract_domain(treq[t].url), now)
       IN  /\ cookieFile' = r.file
           /\ IF auto_proceeds(r.value)
              THEN /\ tpc' = [tpc EXCEPT ![t] = "verify"]
                   /\ tout' = tout
              ELSE /\ tpc' = [tpc EXCEPT ![t] = "done"]
                   /\ tout' = [tout EXCEPT ![t] =
                                 [status |-> "failed", winners |-> <<>>]]
    /\ UNCHANGED <<rng, treq, tfile>>
    /\ ConcurrentFrame

\* _auto_authenticate of thread t: the browser is driven, then
\* _verify_authentication, then clear_cookies when it failed
ThreadAutoVerify(t) ==
    /\ tpc[t] = "verify"
    /\ IF treq[t].accepted
       THEN /\ tpc' = [tpc EXCEPT ![t] = "seed"]
            /\ UNCHANGED <<cookieFile, tout>>
       ELSE /\ tpc' = [tpc EXCEPT ![t] = "done"]
            /\ cookieFile' = clear_cookies(cookieFile).file
            /\ tout' = [tout EXCEPT ![t] =
                          [status |-> "failed", winners |-> <<>>]]
    /\ UNCHANGED <<rng, treq, tfile>>
    /\ ConcurrentFrame

\* LotteryResult.conduct_lottery of thread t: random.seed(seed)
ThreadSeed(t) ==
    /\ tpc[t] = "seed"
    /\ rng' = draw_state(treq[t].seed, rng)
    /\ tpc' = [tpc EXCEPT ![t] = "sample"]
    /\ UNCHANGED <<cookieFile, treq, tout, tfile>>
    /\ ConcurrentFrame

\* LotteryResult.conduct_lottery of thread t: random.sample
ThreadSample(t) ==
    /\ tpc[t] = "sample"
    /\ LET d == sample(rng, ThreadParticipants,
                       Min(treq[t].winner_count, Len(ThreadParticipants)))
       IN  /\ rng' = d.state
           /\ tout' = [tout EXCEPT ![t] =
                         [status |-> "success", winners |-> d.out]]
    /\ tpc' = [tpc EXCEPT ![t] = "done"]
    /\ UNCHANGED <<cookieFile, treq, tfile>>
    /\ ConcurrentFrame

NextConcurrent ==
    \E t \in Threads :
        \/ \E q \in ThreadRequests(t) : ThreadStart(t, q)
        \/ ThreadAutoLoad(t)
        \/ ThreadAutoVerify(t)
        \/ ThreadSeed(t)
        \/ ThreadSample(t)

SpecConcurrent == InitConcurrent /\ [][NextConcurrent]_vars

(***************************************************************************)
(* SpecScrapeLive: SpecScrape with the person at the prompt free to type   *)
(* any number of answers, and every call that is made returning.  The list *)
(* of events `trace` holds the first MaxChoices answers only; of the later *)
(* ones the model keeps the answer itself.                                 *)
(***************************************************************************)
\* answers that are neither "1" nor "2"
InvalidChoices == {"x", "3"}

\* `while True: choice = input(...).strip()` with an answer that is neither
\* "1" nor "2": "invalid choice" is printed and the loop goes round
PromptInputAgain(c) ==
    /\ apc = "prompt_input"
    /\ Count(trace, "ask_choice") + 1 >= MaxChoices
    /\ c \in InvalidChoices
    /\ typed' = c
    /\ UNCHANGED <<resultVars, engineVars, storeVars, authVars, scrapeVars,
                   sharedVars, threadVars, fetchVars, scrollVars, urlVars,
                   seqVars>>

NextScrapeLive ==
    \/ NextScrape
    \/ \E c \in InvalidChoices : PromptInputAgain(c)

\* every step of the program that can be taken is taken in the end: a call
\* that was made returns, and the person at the prompt answers
SpecScrapeLive ==
    InitScrape /\ [][NextScrapeLive]_vars /\ WF_vars(NextScrapeLive)

(***************************************************************************)
(* SpecUrl: a caller asks ScraperFactory.is_supported_url about a url, has *)
(* create_scraper build the scraper for it and asks that scraper's         *)
(* validate_url (services/scrapers/scraper_factory.py).                    *)
(***************************************************************************)
\* the netloc urlparse finds: listed domains, also in capitals, hosts that
\* only contain a listed domain, another site, and none ('invalid-url')
UrlHosts ==
    {Text_threads_com, Text_www \o Text_threads_com, Text_threads_net,
     <<"W","w","w",".","T","h","r","e","a","d","s",".","N","E","T">>,
     Text_instagram_com, Text_www \o Text_instagram_com,
     <<"n","o","t">> \o Text_threads_com,
     <<"m",".">> \o Text_instagram_com,
     Text_threads_net \o <<".">> \o Text_instagram_com,
     <<"w","w","w",".","f","a","c","e","b","o","o","k",".","c","o","m">>,
     <<>>}

\* the path urlparse finds
UrlPaths ==
    {<<"/","@","t","/","p","o","s","t","/","1">>,
     <<"/","@","t">>,
     <<"/","p","/","x">>,
     <<"/","r","e","e","l","/","x">>,
     <<"/","P","O","S","T","/","1">>,
     <<"i","n","v","a","l","i","d","-","u","r","l">>,
     <<>>}

FactoryUrls == [netloc : UrlHosts, path : UrlPaths]

\* ScraperFactory.create_scraper: the class it builds, "" for the
\* ScrapingError of detect_platform
create_scraper(url, use_selenium) ==
    LET platform == detect_platform(url)
    IN  IF use_selenium /\ platform = "threads" THEN "selenium_threads"
        ELSE platform

InitUrl ==
    /\ heap = <<>>
    /\ result = IdleResult
    /\ restored = <<>>
    /\ rng = 0
    /\ lastOp = "init"
    /\ lastSeed = NoSeed
    /\ addLog = <<>>
    /\ InitEngineVars
    /\ InitExtVars

UrlFrame ==
    UNCHANGED <<resultVars, engineVars, storeVars, authVars, scrapeVars,
                sharedVars, threadVars, fetchVars, scrollVars, typed,
                seqVars>>

\* ScraperFactory.is_supported_url(url)
IsSupportedUrl(url) ==
    /\ urlpc = "idle"
    /\ urlArg' = url
    /\ supported' = is_supported_url(url)
    /\ urlpc' = "checked"
    /\ UNCHANGED <<built, accepted>>
    /\ UrlFrame

\* ScraperFactory.create_scraper(url, use_selenium)
CreateScraper(use_selenium) ==
    /\ urlpc = "checked"
    /\ built' = create_scraper(urlArg, use_selenium)
    /\ urlpc' = "created"
    /\ UNCHANGED <<urlArg, supported, accepted>>
    /\ UrlFrame

\* scraper.validate_url(url) on the scraper that was built
ValidateUrl ==
    /\ urlpc = "created"
    /\ built # ""
    /\ accepted' = validate_url(built, urlArg)
    /\ urlpc' = "validated"
    /\ UNCHANGED <<urlArg, supported, built>>
    /\ UrlFrame

\* the caller turns to another url
UrlEnd ==
    /\ urlpc \in {"created", "validated"}
    /\ urlpc' = "idle"
    /\ urlArg' = EmptyUrl
    /\ supported' = FALSE
    /\ built' = ""
    /\ accepted' = FALSE
    /\ UrlFrame

NextUrl ==
    \/ \E url \in FactoryUrls : IsSupportedUrl(url)
    \/ \E use_selenium \in BOOLEAN : CreateScraper(use_selenium)
    \/ ValidateUrl
    \/ UrlEnd

SpecUrl == InitUrl /\ [][NextUrl]_vars

(***************************************************************************)
(* SpecSequence: two processes, each with its own random generator in the  *)
(* state its earlier work left it in, run the same sequence of two         *)
(* LotteryResult.conduct_lottery calls: one with a seed, then one without. *)
(***************************************************************************)
Runs == {1, 2}

\* the participants of a draw, as comment ids of PoolHeap in the order added
DrawLists == {<<1>>, <<1, 2>>, <<2, 3>>, <<1, 2, 3>>}

\* the sequences: seed and participants of the first draw, participants and
\* winner_count of the second
SequenceArgs ==
    [seed : 0..MaxSeed, first : DrawLists, second : DrawLists,
     winner_count : 1..MaxWinnerCount]

\* a LotteryResult of mode 2 with the comments of ids added
ResultOver(ids, winner_count) ==
    add_participants(NewLotteryResult(0, EmptyUrl, "2", winner_count, <<>>, 1),
                     PoolHeap, ids)

InitSequence ==
    /\ heap = PoolHeap
    /\ result = IdleResult
    /\ restored = <<>>
    /\ rng = 0
    /\ lastOp = "init"
    /\ lastSeed = NoSeed
    /\ addLog = <<>>
    /\ InitEngineVars
    /\ InitStoreVars /\ InitAuthVars /\ InitScrapeVars /\ InitSharedVars
    /\ InitThreadVars
    /\ InitFetchVars /\ InitScrollVars /\ typed = "" /\ InitUrlVars
    /\ seqArgs \in SequenceArgs
    /\ runRng \in [Runs -> 0..(RngStates - 1)]
    /\ runStep = [p \in Runs |-> 0]
    /\ runWinners = [p \in Runs |-> <<>>]

SequenceFrame ==
    UNCHANGED <<resultVars, engineVars, storeVars, authVars, scrapeVars,
                sharedVars, threadVars, fetchVars, scrollVars, typed,
                urlVars, seqArgs>>

\* process p: result.conduct_lottery(seed=s) over the first list
SeededDraw(p) ==
    /\ runStep[p] = 0
    /\ LET d == conduct_lottery(ResultOver(seqArgs.first, 1), PoolHeap,
                                <<seqArgs.seed>>, runRng[p])
       IN  /\ runRng' = [runRng EXCEPT ![p] = d.state]
           /\ runWinners' = [runWinners EXCEPT ![p] = <<d.result.winners>>]
    /\ runStep' = [runStep EXCEPT ![p] = 1]
    /\ SequenceFrame

\* process p: result.conduct_lottery() over the second list
UnseededDraw(p) ==
    /\ runStep[p] = 1
    /\ LET d == conduct_lottery(ResultOver(seqArgs.second,
                                           seqArgs.winner_count),
                                PoolHeap, NoSeed, runRng[p])
       IN  /\ runRng' = [runRng EXCEPT ![p] = d.state]
           /\ runWinners' = [runWinners EXCEPT
                                ![p] = Append(@, d.result.winners)]
    /\ runStep' = [runStep EXCEPT ![p] = 2]
    /\ SequenceFrame

NextSequence ==
    \/ \E p \in Runs : SeededDraw(p)
    \/ \E p \in Runs : UnseededDraw(p)

SpecSequence == InitSequence /\ [][NextSequence]_vars

(***************************************************************************)
(* SpecFetch: _make_request of BaseScraper (services/scrapers/              *)
(* base_scraper.py) and of SeleniumBaseScraper (selenium_base_scraper.py),  *)
(* one turn of its loop at a time.                                          *)
(***************************************************************************)
MaxRetryAttempts == 4

\* the scraper classes by the _make_request they inherit
Fetchers == {"http", "driver"}

\* the retry_attempts and delay arguments of a scraper's constructor
RetryAttempts == 0..MaxRetryAttempts

Delays == {1, DefaultDelay}

\* how one attempt can end: session.get with raise_for_status raises a
\* RequestException; driver.get and wait.until raise TimeoutException,
\* WebDriverException or something else
FetchOutcomes(f) ==
    IF f = "http" THEN {"ok", "RequestException"}
    ELSE {"ok", "TimeoutException", "WebDriverException", "Exception"}

\* the time.sleep of the except branch that caught the error, 0 where the
\* branch has none
backoff(f, error, d, a) ==
    IF f = "http" \/ error = "Exception" THEN d * (a + 1) ELSE 0

InitFetch ==
    /\ heap = <<>>
    /\ result = IdleResult
    /\ restored = <<>>
    /\ rng = 0
    /\ lastOp = "init"
    /\ lastSeed = NoSeed
    /\ addLog = <<>>
    /\ InitEngineVars
    /\ InitExtVars

FetchFrame ==
    UNCHANGED <<resultVars, engineVars, storeVars, authVars, scrapeVars,
                sharedVars, threadVars, scrollVars, typed, urlVars,
                seqVars>>

\* a scraper built with retry_attempts = n and delay = d is asked for a page
FetchStart(f, n, d) ==
    /\ fpc = "idle"
    /\ fetcher' = f
    /\ retry_attempts' = n
    /\ delay' = d
    /\ attempt' = 0
    /\ failures' = <<>>
    /\ slept' = <<>>
    /\ fret' = "pending"
    /\ fpc' = "loop"
    /\ FetchFrame

\* `for attempt in range(self.retry_attempts):` gives the next value, or the
\* loop is over and the function ends without a return statement
FetchLoop ==
    /\ fpc = "loop"
    /\ IF attempt < retry_attempts
       THEN fpc' = "try" /\ fret' = fret
       ELSE fpc' = "done" /\ fret' = "None"
    /\ UNCHANGED <<fetcher, retry_attempts, delay, attempt, failures, slept>>
    /\ FetchFrame

\* the body of the loop: the try block and the except branch
FetchAttempt(ended) ==
    /\ fpc = "try"
    /\ ended \in FetchOutcomes(fetcher)
    /\ IF ended = "ok"
       THEN /\ fret' = "response"
            /\ fpc' = "done"
            /\ UNCHANGED <<attempt, failures, slept>>
       ELSE /\ failures' = Append(failures, ended)
            /\ IF attempt = retry_attempts - 1
               THEN /\ fret' = "ScrapingError"
                    /\ fpc' = "done"
                    /\ UNCHANGED <<attempt, slept>>
               ELSE /\ slept' = Append(slept,
                                    backoff(fetcher, ended, delay, attempt))
                    /\ attempt' = attempt + 1
                    /\ fpc' = "loop"
                    /\ fret' = fret
    /\ UNCHANGED <<fetcher, retry_attempts, delay>>
    /\ FetchFrame

\* the caller has the ended
FetchEnd ==
    /\ fpc = "done"
    /\ fpc' = "idle"
    /\ fetcher' = "none"
    /\ retry_attempts' = DefaultRetryAttempts
    /\ delay' = DefaultDelay
    /\ attempt' = 0
    /\ failures' = <<>>
    /\ slept' = <<>>
    /\ fret' = "pending"
    /\ FetchFrame

NextFetch ==
    \/ \E f \in Fetchers, n \in RetryAttempts, d \in Delays : FetchStart(f, n, d)
    \/ FetchLoop
    \/ \E ended \in FetchOutcomes(fetcher) : FetchAttempt(ended)
    \/ FetchEnd

SpecFetch == InitFetch /\ [][NextFetch]_vars

(***************************************************************************)
(* SpecScroll: SeleniumThreadsScraper._smart_scroll_for_comments, one turn *)
(* of its while loop at a time.  execute_script and get_elements catch     *)
(* every exception of the browser and return None or [], so nothing in the *)
(* try block reaches its except branch: a failing browser shows as a count *)
(* of 0.                                                                   *)
(***************************************************************************)
MaxIndicators == 5

\* max_scrolls = 5
max_scrolls == 5

\* len(self.get_elements('a[href*="/@"]'))
IndicatorCounts == 0..MaxIndicators

\* the slip of leaving the no-growth counter out of the loop condition
scroll_goes_on_whatever_grows(attempts, no_new) == attempts < max_scrolls

\* `while scroll_attempts < max_scrolls and no_new_content_count < 2:`
scroll_goes_on(attempts, no_new) == attempts < max_scrolls /\ no_new < 2

InitScroll ==
    /\ heap = <<>>
    /\ result = IdleResult
    /\ restored = <<>>
    /\ rng = 0
    /\ lastOp = "init"
    /\ lastSeed = NoSeed
    /\ addLog = <<>>
    /\ InitEngineVars
    /\ InitExtVars

ScrollFrame ==
    UNCHANGED <<resultVars, engineVars, storeVars, authVars, scrapeVars,
                sharedVars, threadVars, fetchVars, typed, urlVars,
                seqVars>>

\* lines 321-326: the first count and the loop's counters
ScrollStart(count) ==
    /\ scrollpc = "idle"
    /\ initial_count' = count
    /\ scroll_attempts' = 0
    /\ no_new_content_count' = 0
    /\ growthLog' = <<>>
    /\ scrollpc' = "loop"
    /\ ScrollFrame

\* one turn of the loop, lines 328-355: scroll, wait, count, compare
ScrollIteration(new_count) ==
    /\ scrollpc = "loop"
    /\ scroll_goes_on(scroll_attempts, no_new_content_count)
    /\ IF new_count > initial_count
       THEN /\ initial_count' = new_count
            /\ no_new_content_count' = 0
       ELSE /\ initial_count' = initial_count
            /\ no_new_content_count' = no_new_content_count + 1
    /\ growthLog' = Append(growthLog, new_count > initial_count)
    /\ scroll_attempts' = scroll_attempts + 1
    /\ scrollpc' = scrollpc
    /\ ScrollFrame

\* the loop condition is false: line 357 and the return
ScrollStop ==
    /\ scrollpc = "loop"
    /\ ~ scroll_goes_on(scroll_attempts, no_new_content_count)
    /\ scrollpc' = "done"
    /\ UNCHANGED <<scroll_attempts, no_new_content_count, initial_count,
                   growthLog>>
    /\ ScrollFrame

\* scrape_comments goes on to the strategies; the next scrape starts afresh
ScrollEnd ==
    /\ scrollpc = "done"
    /\ scrollpc' = "idle"
    /\ scroll_attempts' = 0
    /\ no_new_content_count' = 0
    /\ initial_count' = 0
    /\ growthLog' = <<>>
    /\ ScrollFrame

NextScroll ==
    \/ \E count \in IndicatorCounts : ScrollStart(count)
    \/ \E new_count \in IndicatorCounts : ScrollIteration(new_count)
    \/ ScrollStop
    \/ ScrollEnd

SpecScroll == InitScroll /\ [][NextScroll]_vars

(***************************************************************************)
(* Properties of the LotteryResult operations (checked under Spec).        *)
(***************************************************************************)
Usernames(h, ids) == [i \in DOMAIN ids |-> h[ids[i]].username]

NoRepeat(s) == \A i, j \in DOMAIN s : i # j => s[i] # s[j]

\* C1: after conduct_lottery with winner_count >= 1 the winners list has
\* exactly min(winner_count, number of eligible participants) entries, no
\* participant is in it twice, and every winner is an eligible participant;
\* with winner_count = 3 and one eligible participant there is one winner and
\* to_dict reports success.
C1_WinnersSizeAndMembership ==
    (lastOp = "draw" /\ result.winner_count >= 1) =>
        LET n == Len(result.eligible_participants)
            w == result.winner_count
        IN  /\ Len(result.winners) = IF w <= n THEN w ELSE n
            /\ NoRepeat(result.winners)
            /\ NoRepeat(Usernames(heap, result.winners))
            /\ Range(result.winners) \subseteq Range(result.eligible_participants)
            /\ (w = 3 /\ n = 1) =>
                  /\ Len(result.winners) = 1
                  /\ to_dict(result, heap).success

\* C1 witness: a draw for three winners with a single eligible participant
C1_Witness_ThreeWantedOneEligible ==
    /\ lastOp = "draw"
    /\ result.winner_count = 3
    /\ Len(result.all_participants) = 2
    /\ Len(result.eligible_participants) = 1
    /\ Len(result.winners) = 1

SubsetChain(r) ==
    /\ Range(r.winners) \subseteq Range(r.eligible_participants)
    /\ Range(r.eligible_participants) \subseteq Range(r.all_participants)

\* C2: in every reachable state of a LotteryResult, also of the one
\* from_dict returns, winners is a subset of eligible_participants and
\* eligible_participants is a subset of all_participants.
C2_SubsetChainEverywhere ==
    /\ SubsetChain(result)
    /\ restored # <<>> => SubsetChain(restored[1].r)

\* the winners of a draw over list E for w winners that starts from seed s
SeededWinners(E, w, s) ==
    IF E = <<>> THEN <<>>
    ELSE sample(seed_state(s), E, IF w <= Len(E) THEN w ELSE Len(E)).out

\* C3: the winners of a seeded conduct_lottery are a function of the ordered
\* eligible list, winner_count and the seed alone, so two calls that agree on
\* the three give the same winners in the same order, whatever state earlier
\* draws left the generator in.
C3_SeededDrawDeterministic ==
    (lastOp = "draw" /\ lastSeed # NoSeed) =>
        /\ result.winners = SeededWinners(result.eligible_participants,
                                          result.winner_count, lastSeed[1])
        /\ \A s \in 0..(RngStates - 1) :
              conduct_lottery(result, heap, lastSeed, s).result.winners
                  = result.winners

\* C3 witness: a seeded draw that picks among several eligible participants
\* and leaves the generator where an earlier draw did not
C3_Witness_SeededDrawAmongSeveral ==
    /\ lastOp = "draw"
    /\ lastSeed = <<0>>
    /\ Len(result.eligible_participants) >= 2
    /\ Len(result.winners) = 1

\* positions of addLog whose username was not added before
FirstAdds(h, log) ==
    {k \in DOMAIN log :
        \A j \in 1..(k - 1) : h[log[j]].username # h[log[k]].username}

\* position in addLog of the first add of the username of comment id
FirstAddOf(h, log, id) ==
    CHOOSE k \in FirstAdds(h, log) : h[log[k]].username = h[id].username

C4_State ==
    LET ap == result.all_participants
    IN  /\ NoRepeat(Usernames(heap, ap))
        /\ Range(ap) = {addLog[k] : k \in FirstAdds(heap, addLog)}
        /\ \A i, j \in DOMAIN ap :
              i < j => FirstAddOf(heap, addLog, ap[i])
                          < FirstAddOf(heap, addLog, ap[j])

C4_Step ==
    \A id \in DOMAIN PoolHeap :
        ( /\ addLog' = Append(addLog, id)
          /\ \E i \in DOMAIN result.all_participants :
                /\ heap[result.all_participants[i]].username = heap[id].username
                /\ heap[result.all_participants[i]].content = heap[id].content )
        => result'.all_participants = result.all_participants

\* C4: all_participants holds at most one record per username, the first one
\* added with it, in the order of first addition; adding a (username,
\* content) pair that is already there leaves all_participants unchanged.
C4_DedupFirstWinsInOrder == [](C4_State) /\ [][C4_Step]_vars

\* C4 witness: two comments of one user were added, the first is kept
C4_Witness_SecondCommentOfUserDropped ==
    /\ addLog = <<1, 4>>
    /\ result.all_participants = <<1>>

(***************************************************************************)
(* Properties of the eligibility filter (checked under SpecFilter).         *)
(***************************************************************************)
\* the same letter, whatever the case
SameLetter(x, y) ==
    \/ x = y
    \/ \E i \in DOMAIN UpperCase : {x, y} = {UpperCase[i], LowerCase[i]}

\* keyword occurs in content as a substring, letters compared without case
OccursIgnoringCase(keyword, content) ==
    \E off \in 0..(Len(content) - Len(keyword)) :
        \A j \in 1..Len(keyword) : SameLetter(content[off + j], keyword[j])

Filtered == lastOp \in {"filter", "preview"}

\* the three comments of the keyword example
KeywordExampleHeap ==
    << NewComment(<<"u","1">>, <<"I"," ","l","o","v","e"," ","c","a","t","s">>),
       NewComment(<<"u","2">>, <<"n","o"," ","p","e","t","s"," ","h","e","r","e">>),
       NewComment(<<"u","3">>, <<"C","a","t"," ","p","e","r","s","o","n","!">>) >>

KeywordExample ==
    filter_eligible_participants(
        add_participants(NewLotteryResult(0, EmptyUrl, "1", 1, Text_cat, 1),
                         KeywordExampleHeap, <<1, 2, 3>>),
        KeywordExampleHeap)

\* C5: in mode 1 a participant is in eligible_participants exactly when its
\* content contains the keyword as a substring, letters compared without
\* case; KeywordFilter("cat") over "I love cats", "no pets here",
\* "Cat person!" gives eligible_count 2.
C5_KeywordEligibility ==
    /\ (Filtered /\ result.mode = "1") =>
          \A id \in Range(result.all_participants) :
              id \in Range(result.eligible_participants)
                  <=> OccursIgnoringCase(result.keyword, heap[id].content)
    /\ KeywordExample.eligible_count = 2
    /\ KeywordExample.eligible_participants = <<1, 3>>

\* C5 witness: an upper-case keyword found in lower-case content
C5_Witness_UpperKeywordLowerContent ==
    /\ Filtered
    /\ result.mode = "1"
    /\ result.keyword = <<"A", "b">>
    /\ heap[1].content = <<"b", "a", "b">>
    /\ result.eligible_participants = <<1>>

\* the names the pattern @[A-Za-z0-9_.]+ matches in s: after each "@", the
\* longest run of name characters, when there is one
MatchedNames(s) ==
    {SubSeq(s, i + 1, e) : <<i, e>> \in
        {p \in (DOMAIN s) \X (DOMAIN s) :
            /\ s[p[1]] = "@"
            /\ p[1] < p[2]
            /\ \A k \in (p[1] + 1)..p[2] : s[k] \in NameChars
            /\ p[2] = Len(s) \/ s[p[2] + 1] \notin NameChars}}

\* the commenter of the mention examples
MentionExample(content) == NewComment(<<"c","a","r","o","l">>, content)

MentionModeResult(required) ==
    NewLotteryResult(0, EmptyUrl, "3", 1, <<>>, required)

\* C6: in mode 3 a participant is eligible exactly when the number of
\* distinct names matched by @[A-Za-z0-9_.]+ in its content, the commenter's
\* own username (compared exactly) left out, is at least the required count;
\* for carol, "@bob hi @Alice @bob" gives {bob, Alice}, "@a @b hello" is
\* eligible for 2 and "@a hello" is not.
C6_MentionEligibility ==
    /\ (Filtered /\ result.mode = "3") =>
          \A id \in Range(result.all_participants) :
              id \in Range(result.eligible_participants)
                  <=> Cardinality(MatchedNames(heap[id].content)
                                      \ {heap[id].username})
                          >= result.mention_count_required
    /\ extract_mentions(MentionExample(<<"@","b","o","b"," ","h","i"," ","@","A","l","i","c","e"," ","@","b","o","b">>))
          = {<<"b","o","b">>, <<"A","l","i","c","e">>}
    /\ is_eligible(MentionModeResult(2), MentionExample(<<"@","a"," ","@","b"," ","h","e","l","l","o">>))
    /\ ~ is_eligible(MentionModeResult(2), MentionExample(<<"@","a"," ","h","e","l","l","o">>))

\* C6 witness: a comment that mentions its own author and, in the other
\* case, one more name is eligible for one mention and no more
C6_Witness_SelfMentionNotCounted ==
    /\ Filtered
    /\ result.mode = "3"
    /\ result.mention_count_required = 1
    /\ heap[1].username = <<"a">>
    /\ heap[1].content = <<"@", "a", "@", "A">>
    /\ result.eligible_participants = <<1>>

(***************************************************************************)
(* Properties of LotteryEngine.conduct_lottery (checked under SpecEngine).  *)
(***************************************************************************)
Returned == pc = "done" /\ outcome.status = "returned"

\* C7: the result returned when a reachable post gave no valid comment
\* differs from every result returned after a scraping failure (which has no
\* platform) and from every result of a successful draw (which has winners).
C7_EmptyExtractionDistinguishable ==
    /\ (Returned /\ cause = "no_comments") =>
           result.platform # "" /\ result.winners = <<>>
    /\ (Returned /\ cause = "scrape_failed") => result.platform = ""
    /\ (Returned /\ cause = "success") => result.winners # <<>>

\* C7 witness: a page was fetched and held only a system account's comment
C7_Witness_OnlyInvalidComments ==
    /\ Returned
    /\ cause = "no_comments"
    /\ scraped = <<5>>
    /\ pageRequests = 1

\* C8: a returned result with no winners comes with a reason given to the
\* caller.
C8_EmptyWinnersCarryReason ==
    (Returned /\ result.winners = <<>>) => outcome.error # ""

\* the request is one the validation has to refuse
RequestInvalid(r) ==
    \/ r.url = EmptyUrl
    \/ ~ (threads_validate_url(r.url) \/ instagram_validate_url(r.url))
    \/ r.mode \notin {"1", "2", "3"}
    \/ r.winner_count < 1
    \/ r.mode = "1" /\ \A i \in DOMAIN r.keyword : r.keyword[i] \in WhiteSpace
    \/ r.mode = "3" /\ r.mention_count_required < 1

FetchSessions == {i \in DOMAIN sessions : sessions[i].kind # "validate"}

\* C9: an invalid request ends with a validation error raised, no scraper
\* created for fetching, no page requested and results_cache as it was.
C9_InvalidRequestFailsFast ==
    (pc \notin {"idle", "validate"} /\ RequestInvalid(req)) =>
        /\ pc = "done"
        /\ outcome.status = "raised"
        /\ outcome.error # ""
        /\ createCalls = 0
        /\ FetchSessions = {}
        /\ pageRequests = 0
        /\ cache = cacheAtStart

\* C9 witness: a supported post URL with winner_count 0 is refused while the
\* cache holds an earlier result
C9_Witness_ZeroWinnerCountRefused ==
    /\ pc = "done"
    /\ req.url = ThreadsPostUrl
    /\ req.mode = "2"
    /\ req.winner_count = 0
    /\ outcome.status = "raised"
    /\ DOMAIN cache = {0}

OpenSessions == {i \in DOMAIN sessions : sessions[i].open}

\* C10: every session created for the request is closed when the call ends,
\* and at most one is open at any moment.
C10_SessionsClosedAndExclusive ==
    /\ pc = "done" => OpenSessions = {}
    /\ Cardinality(OpenSessions) <= 1


(***************************************************************************)
(* Properties of the session store (checked under SpecStore).              *)
(***************************************************************************)
\* a CookieStorage call of the given kind has just been made
StoreCalled(op) == calls' = calls + 1 /\ storeCall'.op = op

\* the session the file holds for `domain` at time t when sessions live for
\* `horizon` hours: <<>> when there is none
SessionFor(file, domain, t, horizon) ==
    IF /\ file # NoFile
       /\ decrypt(file) # <<>>
       /\ decrypt(file)[1].domain = domain
       /\ t - decrypt(file)[1].saved_at <= horizon
    THEN decrypt(file) ELSE <<>>

\* C14: load_cookies(domain) returns the stored session only if the stored
\* domain equals the requested one and the session is no older than the
\* store's expiry horizon, which is 24 hours unless it was set otherwise;
\* in every other case (no file, other domain, too old, unreadable data) it
\* returns nothing.
C14_Step ==
    StoreCalled("load") =>
        returned' = SessionFor(cookieFile, storeCall'.domain, now, max_age_hours)

C14_LoadOnlyMatchingUnexpired == [][C14_Step]_vars

\* C15: the store keeps one session per domain: a save for one domain
\* leaves what a load for every other domain returns as it was, so after
\* saving for A and then for B an unexpired load for A still returns A's
\* session.
C15_Step ==
    (StoreCalled("save") /\ returned' = <<TRUE>>) =>
        \A other \in StoreDomains \ {storeCall'.domain} :
            load_cookies(cookieFile', other, now).value
                = load_cookies(cookieFile, other, now).value

C15_OneSessionPerDomain == [][C15_Step]_vars


(***************************************************************************)
(* Properties of authentication and of scrape_comments (checked under      *)
(* SpecScrape).                                                            *)
(***************************************************************************)
\* position of the first event e in tr, 0 when there is none
FirstAt(tr, e) ==
    IF \E i \in DOMAIN tr : tr[i] = e
    THEN CHOOSE i \in DOMAIN tr : tr[i] = e /\ \A j \in 1..(i - 1) : tr[j] # e
    ELSE 0

\* what authenticate_for_url did so far: the events after its call
AuthEvents == SubSeq(trace, FirstAt(trace, "auth_call") + 1, Len(trace))

\* the events that ask the person at the keyboard for input
InputEvents == {"ask_choice", "ask_confirm"}

\* the events that make the browser load a page
NavigationEvents == {"get_base", "get_login", "refresh", "reload", "get_post"}

\* authenticate_for_url has returned, in the given mode
AuthReturned(mode) == spc = "auth" /\ apc = "ret" /\ auth_mode = mode

\* C11: in Auto mode, when the store holds no session for the requested
\* domain or only an expired one, authenticate_for_url returns false without
\* asking the user for any input and without navigating the browser.
C11_AutoWithoutSessionFailsQuietly ==
    (/\ AuthReturned("auto")
     /\ SessionFor(fileAtCall, current_domain, now, DefaultMaxAgeHours) = <<>>)
    => /\ authRet = <<FALSE>>
       /\ Range(AuthEvents) \cap (InputEvents \cup NavigationEvents) = {}

\* an expired session for the requested domain was in the store
C11_Witness_ExpiredSessionRefused ==
    /\ AuthReturned("auto")
    /\ fileAtCall # NoFile
    /\ decrypt(fileAtCall) # <<>>
    /\ decrypt(fileAtCall)[1].domain = current_domain
    /\ now - decrypt(fileAtCall)[1].saved_at > DefaultMaxAgeHours
    /\ authRet = <<FALSE>>
    /\ cookieFile = NoFile


\* event e is in tr before the first event f
Before(tr, e, f) == FirstAt(tr, e) \in 1..(FirstAt(tr, f) - 1)

\* C12: in Prompt mode the saved-session attempt comes first: the user is
\* asked to choose between manual login and skip only after the store was
\* looked at, and only when it holds no valid session or the automatic
\* attempt failed; when the automatic attempt succeeds the user is never
\* asked.
C12_PromptTriesAutoFirst ==
    (spc = "auth" /\ auth_mode = "prompt") =>
       /\ "ask_choice" \in Range(AuthEvents) =>
             /\ Before(AuthEvents, "has_valid", "ask_choice")
             /\ \/ SessionFor(fileAtCall, current_domain, now,
                              DefaultMaxAgeHours) = <<>>
                \/ Before(AuthEvents, "auto_false", "ask_choice")
       /\ "auto_true" \in Range(AuthEvents) =>
             /\ "ask_choice" \notin Range(AuthEvents)
             /\ apc = "ret"
             /\ authRet = <<TRUE>>

\* a valid session was there, the automatic attempt failed, the user is asked
C12_Witness_AskedAfterFailedAuto ==
    /\ spc = "auth"
    /\ auth_mode = "prompt"
    /\ SessionFor(fileAtCall, current_domain, now, DefaultMaxAgeHours) # <<>>
    /\ Before(AuthEvents, "load", "auto_false")
    /\ Before(AuthEvents, "auto_false", "ask_choice")


\* the last n events of tr
LastEvents(tr, n) == SubSeq(tr, Len(tr) - n + 1, Len(tr))

\* _manual_authenticate has returned after a re-verification that failed
ManualVerificationFailed ==
    /\ spc = "auth"
    /\ apc = "ret"
    /\ Len(AuthEvents) >= 2
    /\ LastEvents(AuthEvents, 2) = <<"ask_confirm", "verify">>

\* C13: in manual authentication the session is written to the store only
\* after the user's confirmation and a successful re-verification; when the
\* re-verification fails, the call returns false, is_authenticated stays
\* false and the stored session is left exactly as it was.
C13_ManualSavesOnlyVerified ==
    /\ \A i \in DOMAIN AuthEvents :
          AuthEvents[i] = "save" =>
             /\ i >= 3
             /\ AuthEvents[i - 1] = "verify"
             /\ AuthEvents[i - 2] = "ask_confirm"
             /\ is_authenticated
    /\ ManualVerificationFailed =>
          /\ authRet = <<FALSE>>
          /\ ~is_authenticated
          /\ cookieFile = fileAtManual

\* the store held a session, the person confirmed, the verification failed
C13_Witness_FailedVerificationKeepsStore ==
    /\ ManualVerificationFailed
    /\ fileAtManual # NoFile
    /\ decrypt(fileAtManual) # <<>>
    /\ cookieFile = fileAtManual
    /\ authRet = <<FALSE>>


\* the login wall was found after the first page load
WallFound == "auth_call" \in Range(trace)

\* authenticate_for_url is over, by a return or by an exception
AuthOver == WallFound /\ apc = "none"

\* the login wall was found again after the reload
WallAfterReload ==
    \E i \in 1..(Len(trace) - 1) :
        trace[i] = "reload" /\ trace[i + 1] = "check_wall"

FirstProducing ==
    IF \E i \in DOMAIN ran : ran[i].out # <<>>
    THEN CHOOSE i \in DOMAIN ran :
            ran[i].out # <<>> /\ \A j \in 1..(i - 1) : ran[j].out = <<>>
    ELSE 0

\* C20: extraction strategies run in fixed priority order and strategy k is
\* executed only if every earlier strategy returned no records, so the
\* records returned by scrape_comments all come from the first strategy that
\* produced any; this holds for the Threads, Instagram and Selenium Threads
\* scrapers.
C20_StrategiesInOrderFirstWins ==
    /\ \A i \in DOMAIN ran :
          /\ ran[i].strategy = i
          /\ \A j \in 1..(i - 1) : ran[j].out = <<>>
    /\ scrapeRet.status = "ok" =>
          /\ \A i \in DOMAIN scrapeRet.comments :
                /\ FirstProducing # 0
                /\ scrapeRet.comments[i].from = ran[FirstProducing].strategy
          /\ FirstProducing # 0 => scrapeRet.comments # <<>>

\* strategy 1 found nothing, strategy 2 found records, strategy 3 was not run
C20_Witness_SecondStrategyWins ==
    /\ scraperKind = "instagram"
    /\ scrapeRet.status = "ok"
    /\ Len(ran) = 2
    /\ ran[1].out = <<>>
    /\ ran[2].out # <<>>
    /\ scrapeRet.comments = ran[2].out


(***************************************************************************)
(* Properties of the store under concurrent calls (checked under           *)
(* SpecStoreShared).                                                       *)
(***************************************************************************)
\* C16: save_cookies and clear_cookies behave as atomic replacements with
\* respect to a concurrent load_cookies or get_cookie_info: what the reader
\* returns is what it returns on the complete file as it was before the
\* writing call or on the complete file as that call leaves it (the new
\* session, or no file after clear), never what an empty or partly written
\* file gives.
C16_ReaderSeesCompleteState ==
    rpc = "done" => rret \in {ReadOf(f, rcall) : f \in allowed}


(***************************************************************************)
(* Properties of concurrent requests (checked under SpecConcurrent).       *)
(***************************************************************************)
\* what the request of thread t ends with when no other request runs
\* between its start and its end
Alone(t) ==
    LET q == treq[t]
        authenticated ==
            \/ ~q.wall
            \/ /\ load_cookies(tfile[t], extract_domain(q.url), now).value # <<>>
               /\ q.accepted
    IN  IF ~authenticated THEN [status |-> "failed", winners |-> <<>>]
        ELSE [status |-> "success",
              winners |-> IF q.seed = NoSeed THEN <<>>
                          ELSE SeededWinners(ThreadParticipants, q.winner_count,
                                             q.seed[1])]

\* C17: two lottery requests for different URLs running concurrently in one
\* process each end as they end when run alone: the same failure status,
\* and for a seeded draw the same winners; what one request writes to the
\* cookie file or to the random generator changes nothing for the other.
C17_ConcurrentRequestsIsolated ==
    \A t \in Threads :
        tpc[t] = "done" =>
            /\ tout[t].status = Alone(t).status
            /\ (tout[t].status = "success" /\ treq[t].seed # NoSeed) =>
                  tout[t].winners = Alone(t).winners


(***************************************************************************)
(* Properties of the result store (checked under SpecEngine).              *)
(***************************************************************************)
\* C18: every LotteryResult that conduct_lottery returns to its caller is
\* retained in the result store: get_result(result.id) returns that same
\* result, an id that was never given out returns nothing, and an entry that
\* was in the store when the request began is still there unchanged.
C18_ReturnedResultsRetained ==
    /\ Returned => get_result(cache, result.id) = <<result>>
    /\ get_result(cache, nextId) = <<>>
    /\ \A id \in DOMAIN cacheAtStart :
          get_result(cache, id) = <<cacheAtStart[id]>>

\* a strategy of the scrape_comments call in progress raised an exception
StrategyRaised(i) == i \in DOMAIN ran /\ ran[i].raised

\* C21: when an extraction strategy raises, the exception is caught, the
\* next strategy of the chain is still run and scrape_comments does not
\* fail because of it: a finished scrape_comments in which a strategy raised
\* has returned a list, and every strategy that raised but the last of the
\* chain is followed by the next one; scrape_comments fails only when no
\* strategy returned a record.
C21_StrategyFailureIsCaught ==
    spc = "done" =>
       /\ \A i \in DOMAIN ran :
             StrategyRaised(i) =>
                /\ scrapeRet.status = "ok"
                /\ ran[i].strategy < 3 => i + 1 \in DOMAIN ran
       /\ scrapeRet.status = "ScrapingError" =>
             \A i \in DOMAIN ran : ran[i].out = <<>>

\* no two records of the list have the same (username, content) key
NoTwoSameKey(list) ==
    \A i, j \in DOMAIN list : i # j => list[i].key # list[j].key

\* C22: the list scrape_comments returns, whichever scraper and strategy
\* produced it, holds no two records with the same case-insensitive
\* (username, trimmed content) key, and loses no key that was extracted.
C22_ReturnedListHasNoDuplicates ==
    (spc = "done" /\ scrapeRet.status = "ok") =>
       /\ NoTwoSameKey(scrapeRet.comments)
       /\ \A i \in DOMAIN collected :
             \E j \in DOMAIN scrapeRet.comments :
                scrapeRet.comments[j].key = collected[i].key

\* the scrapers _scrape_comments created in its except branch
FallbackSessions == {i \in DOMAIN sessions : sessions[i].kind = "fallback"}

\* the scrapers _scrape_comments created first
PrimarySessions == {i \in DOMAIN sessions : sessions[i].kind = "primary"}

\* _scrape_comments is over: the draw is next or the call has ended
ScrapingOver == pc \in {"draw", "done"} /\ cause # "invalid"

\* C23: when the first scraper fails (at creation or while scraping),
\* _scrape_comments makes exactly one further attempt, with the plain HTTP
\* scraper, and fails only if that attempt fails too; when the first scraper
\* returns normally, even with an empty list, no second scraper is used.
C23_OneHttpFallback ==
    /\ Cardinality(FallbackSessions) <= 1
    /\ Cardinality(PrimarySessions) <= 1
    /\ \A i \in FallbackSessions :
          /\ sessions[i].transport = "http"
          /\ \A j \in PrimarySessions : j < i /\ ~sessions[j].open
    /\ pc = "fallback_create" =>
          /\ FallbackSessions = {}
          /\ PrimarySessions = {} \/ ~scrapeOk
    /\ cause = "scrape_failed" =>
          /\ FallbackSessions # {}
          /\ ~scrapeOk
          /\ pageRequests = Cardinality(PrimarySessions) + 1
    /\ (ScrapingOver /\ FallbackSessions = {}) =>
          /\ PrimarySessions # {}
          /\ scrapeOk
          /\ createCalls = 1
          /\ pageRequests = 1
    /\ (ScrapingOver /\ FallbackSessions # {}) =>
          /\ createCalls = 2
          /\ pageRequests = Cardinality(PrimarySessions) + 1
          /\ cause # "scrape_failed" => scrapeOk

\* C23 witness: the browser scraper failed while scraping and the one HTTP
\* attempt after it returned a list
C23_Witness_HttpAttemptAfterBrowserFailure ==
    /\ pc = "draw"
    /\ \E j \in PrimarySessions : sessions[j].transport = "driver"
    /\ FallbackSessions # {}
    /\ pageRequests = 2
    /\ scrapeOk

(***************************************************************************)
(* Properties of _make_request (checked under SpecFetch).                  *)
(***************************************************************************)
\* the fetch attempts the call has made
AttemptsMade == Len(failures) + IF fret = "response" THEN 1 ELSE 0

\* C24: _make_request makes at most retry_attempts attempts, returns the
\* response of the first attempt that succeeds, raises ScrapingError exactly
\* when retry_attempts attempts have failed, and never returns without a
\* response.
C24_BoundedAttemptsResponseOrError ==
    /\ AttemptsMade <= retry_attempts
    /\ fpc = "done" =>
          /\ fret \in {"response", "ScrapingError"}
          /\ fret = "ScrapingError" <=> Len(failures) = retry_attempts

\* C25: between a failed attempt and the next one the transport waits, and
\* the wait doubles from one retry to the next, whatever the failure was and
\* whatever retry_attempts is.
C25_WaitDoublesBetweenAttempts ==
    \A i \in DOMAIN slept :
       /\ slept[i] > 0
       /\ i > 1 => slept[i] = 2 * slept[i - 1]

(***************************************************************************)
(* Properties of the scrolling phase (checked under SpecScroll).           *)
(***************************************************************************)
\* the iterations at the end of the log that showed no growth
RECURSIVE TrailingNoGrowth(_)
TrailingNoGrowth(log) ==
    IF log = <<>> \/ log[Len(log)] THEN 0
    ELSE 1 + TrailingNoGrowth(SubSeq(log, 1, Len(log) - 1))

\* C26: the scrolling phase makes at most max_scrolls (5) iterations, no
\* iteration follows two consecutive iterations without growth, the
\* no-growth counter is the number of no-growth iterations since the last
\* growth (0 right after an iteration with growth), and the phase ends only
\* at the maximum or after two consecutive no-growth iterations.
C26_ScrollBoundedStopsOnNoGrowth ==
    /\ scroll_attempts = Len(growthLog)
    /\ scroll_attempts <= max_scrolls
    /\ \A i \in 2..(Len(growthLog) - 1) : growthLog[i - 1] \/ growthLog[i]
    /\ no_new_content_count = TrailingNoGrowth(growthLog)
    /\ scrollpc = "done" =>
          \/ scroll_attempts = max_scrolls
          \/ TrailingNoGrowth(growthLog) = 2

\* C26 witness: growth in the second iteration reset the counter, and the
\* phase ended before the maximum after two iterations without growth
C26_Witness_ResetThenStoppedEarly ==
    /\ scrollpc = "done"
    /\ growthLog = <<FALSE, TRUE, FALSE, FALSE>>

(***************************************************************************)
(* Termination of a request (checked under SpecScrapeLive).                *)
(***************************************************************************)
\* C27: a conduct_lottery call finishes, returning or raising, provided
\* every single call it makes returns; no step of it repeats without bound.
\* Its scrape_comments call, once the page is asked for, returns or raises.
C27_RequestTerminates == (spc = "request") ~> (spc = "done")

(***************************************************************************)
(* The statistics of a result (checked under SpecEngine).                  *)
(***************************************************************************)
\* the distinct usernames in all_participants of r
DistinctUsernames(r, h) == {h[id].username : id \in Range(r.all_participants)}

\* the counts of r agree with its lists
CountsMatchLists(r, h) ==
    /\ r.total_participants = Cardinality(DistinctUsernames(r, h))
    /\ r.eligible_count = Len(r.eligible_participants)

\* C28: in every LotteryResult that LotteryEngine.conduct_lottery returns
\* (which is, on the paths that reach it, the result after
\* LotteryResult.conduct_lottery), total_participants is the number of
\* distinct usernames in all_participants and eligible_count is the number
\* of entries of eligible_participants.
C28_ReturnedCountsMatchLists == Returned => CountsMatchLists(result, heap)

(***************************************************************************)
(* Properties of the ScraperFactory (checked under SpecUrl).               *)
(***************************************************************************)
\* the host is one of the listed domains and the path has one of the segments
ListedPost(url, domains, segments) ==
    /\ lower(url.netloc) \in domains
    /\ \E s \in segments : StrIn(s, url.path)

\* C29: is_supported_url returns (it never raises) true exactly when the
\* host is a listed Threads domain and the path has /post/, or the host is a
\* listed Instagram domain and the path has /p/ or /reel/, which is when
\* detection succeeds and that platform's validate_url accepts; and the
\* scraper create_scraper builds for a url it accepted accepts the url too.
C29_SupportedIffListedPost ==
    /\ supported \in BOOLEAN
    /\ urlpc # "idle" =>
          (supported <=>
             \/ ListedPost(urlArg, THREADS_DOMAINS, {<<"/","p","o","s","t","/">>})
             \/ ListedPost(urlArg, INSTAGRAM_DOMAINS,
                           {<<"/","p","/">>, <<"/","r","e","e","l","/">>}))
    /\ (urlpc = "created" /\ supported) => built # ""
    /\ (urlpc = "validated" /\ supported) => accepted

\* C29 witness: a host that only contains a listed domain was detected as
\* Threads, a scraper was built for it, and the url was refused throughout
C29_Witness_LookalikeHostRefused ==
    /\ urlpc = "validated"
    /\ urlArg.netloc = <<"n","o","t">> \o Text_threads_com
    /\ urlArg.path = <<"/","@","t","/","p","o","s","t","/","1">>
    /\ built = "selenium_threads"
    /\ ~supported
    /\ ~accepted

(***************************************************************************)
(* The generator after a seeded draw (checked under SpecSequence).         *)
(***************************************************************************)
\* C30: a seeded draw leaves the process-wide generator seeded, so the
\* winners of the next draw, made without a seed, are determined by that
\* seed and the lists: two processes that run the sequence (seeded draw,
\* unseeded draw) get the same winners in the unseeded draw, and are left
\* with the generator in the same state, whatever state each started in.
C30_UnseededDrawFollowsEarlierSeed ==
    \A p, q \in Runs :
       (runStep[p] = 2 /\ runStep[q] = 2) =>
          /\ runWinners[p][2] = runWinners[q][2]
          /\ runRng[p] = runRng[q]

\* C30 witness: two processes whose generators started in different states
\* both made the unseeded draw, of one winner among three participants
C30_Witness_DifferentStartsSameWinners ==
    /\ runStep = [p \in Runs |-> 2]
    /\ seqArgs.second = <<1, 2, 3>>
    /\ Len(runWinners[1][2]) = 1
    /\ rng = 0
    /\ \E a, b \in 0..(RngStates - 1) :
          /\ a # b
          /\ sample(a, <<1, 2, 3>>, 1).out # sample(b, <<1, 2, 3>>, 1).out

=============================================================================
